---- MODULE Spec2Model ----
(***************************************************************************)
(* A model of the live-collab-editor front end: the AIService singleton    *)
(* (src/src/services/aiService.js), the App component with its WebSocket   *)
(* and edit handlers (src/src/App.js), the ChatSidebar and the             *)
(* PreviewModal.                                                           *)
(*                                                                         *)
(* JavaScript strings are sequences of one-character strings, so that      *)
(* split, trim, join and the regular expressions of the text engine are    *)
(* computed character by character.  JavaScript values that may be of any  *)
(* type (what a provider returns) are tagged records.                      *)
(***************************************************************************)
EXTENDS Integers, Sequences, FiniteSets, TLC

(***************************************************************************)
(* Characters and strings                                                  *)
(***************************************************************************)
LowerSeq ==
    <<"a","b","c","d","e","f","g","h","i","j","k","l","m",
      "n","o","p","q","r","s","t","u","v","w","x","y","z">>

UpperSeq ==
    <<"A","B","C","D","E","F","G","H","I","J","K","L","M",
      "N","O","P","Q","R","S","T","U","V","W","X","Y","Z">>

Range(s) == { s[i] : i \in DOMAIN s }

SetMin(S) == CHOOSE x \in S : \A y \in S : x <= y

SetMax(S) == CHOOSE x \in S : \A y \in S : y <= x

LowerChars == Range(LowerSeq)

UpperChars == Range(UpperSeq)

\* \w of a JavaScript regular expression
WordChars == LowerChars \cup UpperChars \cup {"0","1","2","3","4","5","6","7","8","9","_"}

\* \s of a JavaScript regular expression, and what String.prototype.trim strips
SpaceChars == {" ", "\n", "\t", "\r"}

\* [.!?] : the sentence terminators of the text engine
TerminatorChars == {".", "!", "?"}

\* a line terminator: what . of a regular expression does not match
LineBreakChars == {"\n", "\r"}

\* the character U+2022 (a bullet), which the module's ASCII strings cannot hold
Bullet == "U+2022"

IsLower(c) == c \in LowerChars

IsUpper(c) == c \in UpperChars

IsWordChar(c) == c \in WordChars

IsSpace(c) == c \in SpaceChars

IsTerminator(c) == c \in TerminatorChars

IsLineBreak(c) == c \in LineBreakChars

ToLowerChar(c) ==
    IF IsUpper(c) THEN LowerSeq[CHOOSE i \in DOMAIN UpperSeq : UpperSeq[i] = c] ELSE c

ToUpperChar(c) ==
    IF IsLower(c) THEN UpperSeq[CHOOSE i \in DOMAIN LowerSeq : LowerSeq[i] = c] ELSE c

\* String.prototype.toLowerCase
toLowerCase(s) == [ i \in DOMAIN s |-> ToLowerChar(s[i]) ]

\* String.prototype.trim
trim(s) ==
    LET kept == { i \in DOMAIN s : ~IsSpace(s[i]) }
    IN  IF kept = {} THEN <<>> ELSE SubSeq(s, SetMin(kept), SetMax(kept))

\* Array.prototype.join
RECURSIVE join(_, _)
join(parts, sep) ==
    IF parts = <<>> THEN <<>>
    ELSE IF Len(parts) = 1 THEN parts[1]
    ELSE parts[1] \o sep \o join(Tail(parts), sep)

\* Number.prototype.toString of a natural number
RECURSIVE NumberToString(_)
NumberToString(n) ==
    LET d == <<"0","1","2","3","4","5","6","7","8","9">>
    IN  IF n < 10 THEN <<d[n + 1]>> ELSE NumberToString(n \div 10) \o <<d[(n % 10) + 1]>>

\* the last index of the maximal run of characters of class that starts at i (i-1 if none)
RunEnd(s, i, class) ==
    LET stops == { j \in i .. Len(s) : s[j] \notin class }
    IN  IF i > Len(s) THEN i - 1
        ELSE IF stops = {} THEN Len(s)
        ELSE SetMin(stops) - 1

(***************************************************************************)
(* s.split(/[seps]+/): the pieces between the maximal runs of separator    *)
(* characters.  As in JavaScript, a text that starts or ends with a run    *)
(* yields an empty first or last piece, and the empty text one empty piece.*)
(***************************************************************************)
SplitRuns(s, seps) ==
    LET runStarts == { i \in DOMAIN s : s[i] \in seps /\ (i = 1 \/ s[i - 1] \notin seps) }
        k == Cardinality(runStarts)
        runStart(j) == CHOOSE p \in runStarts : Cardinality({ r \in runStarts : r < p }) = j - 1
        from(j) == IF j = 1 THEN 1 ELSE RunEnd(s, runStart(j - 1), seps) + 1
        to(j) == IF j = k + 1 THEN Len(s) ELSE runStart(j) - 1
    IN  [ j \in 1 .. (k + 1) |-> SubSeq(s, from(j), to(j)) ]

\* text.split(/[.!?]+/)
splitSentences(s) == SplitRuns(s, TerminatorChars)

\* xs.filter(keep), for the set keep of the indices whose element passes the test
filterAt(xs, keep) ==
    LET nth(j) == CHOOSE p \in keep : Cardinality({ r \in keep : r < p }) = j - 1
    IN  [ j \in 1 .. Cardinality(keep) |-> xs[nth(j)] ]

\* text.split(/[.!?]+/).filter(s => s.trim()): the empty string is falsy
sentencesOf(s) ==
    LET pieces == splitSentences(s)
    IN  filterAt(pieces, { i \in DOMAIN pieces : trim(pieces[i]) # <<>> })

\* a variant that rounds down, as Math.floor(n * 0.7) would
Floor70(n) == (7 * n) \div 10

\* Math.ceil(n * 0.7) on the naturals (the double product rounds to the same integer)
Ceil70(n) == (7 * n + 9) \div 10

(***************************************************************************)
(* JavaScript values                                                       *)
(***************************************************************************)
Undefined == [t |-> "undefined"]

Null == [t |-> "null"]

Str(s) == [t |-> "string", v |-> s]

Num(n) == [t |-> "number", v |-> n]

\* an object, as the function from its own keys to their values
Obj(f) == [t |-> "object", f |-> f]

\* the completion of an evaluation that threw
Thrown == [t |-> "throw"]

IsString(x) == x.t = "string"

\* ToBoolean
Truthy(x) ==
    CASE x.t = "undefined" -> FALSE
      [] x.t = "null" -> FALSE
      [] x.t = "string" -> x.v # <<>>
      [] x.t = "number" -> x.v # 0
      [] OTHER -> TRUE

\* o[k] and o.k; reading a property of undefined or null throws a TypeError
Get(o, k) ==
    CASE o.t \in {"undefined", "null", "throw"} -> Thrown
      [] o.t = "object" -> IF k \in DOMAIN o.f THEN o.f[k] ELSE Undefined
      [] OTHER -> Undefined

\* arr[i] of a JavaScript array held as a sequence of strings (i counts from 0)
ArrayAt(arr, i) == IF i + 1 \in DOMAIN arr THEN Str(arr[i + 1]) ELSE Undefined

(***************************************************************************)
(* Regular-expression replacement, character by character.  A global       *)
(* replace is a scan from left to right: step[i] says what the scan writes *)
(* when it stands at i (the replacement of the match that starts there, or *)
(* the character itself) and where it stands next.                         *)
(***************************************************************************)
Keep(s, i) == [emit |-> <<s[i]>>, next |-> i + 1]

\* the scan of positions i .. stop-1 and the position it ends on; the recursion is
\* cut into blocks of 16 positions to keep it shallow, and each position and each
\* partial result is worked out once before it is used
RECURSIVE ScanBlock(_, _, _)
ScanBlock(step, i, stop) ==
    IF i > Len(step) \/ i >= stop THEN [out |-> <<>>, next |-> i]
    ELSE CHOOSE block \in { [out |-> step[i].emit \o rest.out, next |-> rest.next] :
                               rest \in { ScanBlock(step, next, stop) : next \in {step[i].next} } } : TRUE

RECURSIVE ScanFrom(_, _)
ScanFrom(step, i) ==
    IF i > Len(step) THEN <<>>
    ELSE CHOOSE out \in { block.out \o ScanFrom(step, block.next) :
                             block \in {ScanBlock(step, i, i + 16)} } : TRUE

Scan(step) == CHOOSE out \in { ScanFrom(f, 1) : f \in {step} } : TRUE

\* s[i .. i+Len(pat)-1] is pat; with ci (the i flag) letters compare without case
EqAt(s, i, pat, ci) ==
    /\ i + Len(pat) - 1 <= Len(s)
    /\ \A k \in DOMAIN pat :
          IF ci THEN ToLowerChar(s[i + k - 1]) = ToLowerChar(pat[k])
                ELSE s[i + k - 1] = pat[k]

\* \b at the gap before s[i], for i in 1 .. Len(s)+1
WordBoundary(s, i) ==
    LET before == i > 1 /\ IsWordChar(s[i - 1])
        after == i <= Len(s) /\ IsWordChar(s[i])
    IN  before # after

\* /\bpat\b/ matches at i
MatchWord(s, i, pat, ci) ==
    /\ EqAt(s, i, pat, ci)
    /\ WordBoundary(s, i)
    /\ WordBoundary(s, i + Len(pat))

\* s.replace(/\bpat\b/g, rep), and with ci s.replace(/\bpat\b/gi, rep)
ReplaceWord(s, pat, rep, ci) ==
    Scan([ i \in DOMAIN s |->
             IF MatchWord(s, i, pat, ci) THEN [emit |-> rep, next |-> i + Len(pat)]
             ELSE Keep(s, i) ])

\* s.replace(/pat/g, rep) for a literal pat
ReplaceLiteral(s, pat, rep) ==
    Scan([ i \in DOMAIN s |->
             IF EqAt(s, i, pat, FALSE) THEN [emit |-> rep, next |-> i + Len(pat)]
             ELSE Keep(s, i) ])

\* the replace calls of a table << <<pat, rep>>, ... >> applied one after another
RECURSIVE ReplaceTable(_, _, _)
ReplaceTable(s, table, ci) ==
    IF table = <<>> THEN s
    ELSE \* the text after the first call is worked out once, then handed to the rest
         CHOOSE result \in { ReplaceTable(replaced, Tail(table), ci) :
                                replaced \in {ReplaceWord(s, table[1][1], table[1][2], ci)} } : TRUE

\* obj[key] || dflt for an object literal held as << <<key, value>>, ... >>
Lookup(table, key, dflt) ==
    IF \E k \in DOMAIN table : table[k][1] = key
    THEN table[CHOOSE k \in DOMAIN table : table[k][1] = key][2]
    ELSE dflt

\* String.prototype.includes
includes(s, sub) == \E i \in 1 .. (Len(s) + 1) : EqAt(s, i, sub, FALSE)

(***************************************************************************)
(* The text engine of AIService                                            *)
(***************************************************************************)
TableHeader ==
    <<"|"," ","I","t","e","m"," ","|"," ","D","e","s","c","r","i","p","t","i","o","n"," ","|",
      "\n","|","-","-","-","-","-","-","|","-","-","-","-","-","-","-","-","-","-","-","-","-",
      "|","\n">>

LengthenClosing ==
    <<" ","T","h","i","s"," ","d","e","m","o","n","s","t","r","a","t","e","s"," ","t","h","e",
      " ","c","o","m","p","l","e","x","i","t","y"," ","a","n","d"," ","i","m","p","o","r","t",
      "a","n","c","e"," ","o","f"," ","t","h","e"," ","m","a","t","t","e","r"," ","a","t"," ",
      "h","a","n","d",".">>

SummaryPrefix ==
    <<"S","u","m","m","a","r","y",":"," ">>

KeyTermsInfix ==
    <<"."," ","K","e","y"," ","t","e","r","m","s",":"," ">>

MsgShorten ==
    <<"T","e","x","t"," ","s","h","o","r","t","e","n","e","d"," ","w","h","i","l","e"," ","p",
      "r","e","s","e","r","v","i","n","g"," ","k","e","y"," ","m","e","a","n","i","n","g">>

MsgLengthen ==
    <<"T","e","x","t"," ","e","x","p","a","n","d","e","d"," ","w","i","t","h"," ","a","d","d",
      "i","t","i","o","n","a","l"," ","d","e","t","a","i","l">>

MsgImprove ==
    <<"W","r","i","t","i","n","g"," ","q","u","a","l","i","t","y"," ","i","m","p","r","o","v",
      "e","d">>

MsgFormal ==
    <<"T","e","x","t"," ","m","a","d","e"," ","m","o","r","e"," ","f","o","r","m","a","l">>

MsgCasual ==
    <<"T","e","x","t"," ","m","a","d","e"," ","m","o","r","e"," ","c","a","s","u","a","l">>

MsgTable ==
    <<"C","o","n","v","e","r","t","e","d"," ","t","o"," ","t","a","b","l","e"," ","f","o","r",
      "m","a","t">>

MsgList ==
    <<"C","o","n","v","e","r","t","e","d"," ","t","o"," ","l","i","s","t"," ","f","o","r","m",
      "a","t">>

MsgSummarize ==
    <<"T","e","x","t"," ","s","u","m","m","a","r","i","z","e","d">>

MsgCustomPrefix ==
    <<"C","u","s","t","o","m"," ","e","d","i","t"," ","a","p","p","l","i","e","d",":"," ">>

MsgDefault ==
    <<"T","e","x","t"," ","i","m","p","r","o","v","e","d">>


\* lengthenText: the expansions object
expansions ==
    <<
      << <<"g","o","o","d">>,
         <<"e","x","c","e","l","l","e","n","t"," ","a","n","d"," ","w","e","l","l","-","e","x","e","c","u","t","e","d">> >>,
      << <<"b","a","d">>,
         <<"p","r","o","b","l","e","m","a","t","i","c"," ","a","n","d"," ","c","o","n","c","e","r","n","i","n","g">> >>,
      << <<"n","i","c","e">>,
         <<"p","l","e","a","s","a","n","t"," ","a","n","d"," ","a","p","p","e","a","l","i","n","g">> >>,
      << <<"g","r","e","a","t">>,
         <<"o","u","t","s","t","a","n","d","i","n","g"," ","a","n","d"," ","r","e","m","a","r","k","a","b","l","e">> >>
    >>

\* improveWriting: the intensifiers object
intensifiers ==
    <<
      << <<"g","o","o","d">>,
         <<"e","x","c","e","p","t","i","o","n","a","l">> >>,
      << <<"b","a","d">>,
         <<"t","e","r","r","i","b","l","e">> >>,
      << <<"b","i","g">>,
         <<"e","n","o","r","m","o","u","s">> >>,
      << <<"s","m","a","l","l">>,
         <<"t","i","n","y">> >>,
      << <<"i","m","p","o","r","t","a","n","t">>,
         <<"c","r","u","c","i","a","l">> >>,
      << <<"d","i","f","f","i","c","u","l","t">>,
         <<"c","h","a","l","l","e","n","g","i","n","g">> >>
    >>

\* improveWriting: the replacements after thing(s?), in call order
improveWritingTable ==
    <<
      << <<"s","t","u","f","f">>,
         <<"m","a","t","e","r","i","a","l">> >>,
      << <<"g","o","t">>,
         <<"o","b","t","a","i","n","e","d">> >>,
      << <<"a"," ","l","o","t"," ","o","f">>,
         <<"n","u","m","e","r","o","u","s">> >>
    >>

\* makeFormal: the replace calls, in call order
formalTable ==
    <<
      << <<"c","a","n","'","t">>,
         <<"c","a","n","n","o","t">> >>,
      << <<"w","o","n","'","t">>,
         <<"w","i","l","l"," ","n","o","t">> >>,
      << <<"d","o","e","s","n","'","t">>,
         <<"d","o","e","s"," ","n","o","t">> >>,
      << <<"i","s","n","'","t">>,
         <<"i","s"," ","n","o","t">> >>,
      << <<"I"," ","t","h","i","n","k">>,
         <<"I","t"," ","i","s"," ","m","y"," ","o","p","i","n","i","o","n"," ","t","h","a","t">> >>,
      << <<"m","a","y","b","e">>,
         <<"p","e","r","h","a","p","s">> >>,
      << <<"o","k","a","y">>,
         <<"a","c","c","e","p","t","a","b","l","e">> >>,
      << <<"k","i","n","d"," ","o","f">>,
         <<"s","o","m","e","w","h","a","t">> >>,
      << <<"g","u","y","s">>,
         <<"i","n","d","i","v","i","d","u","a","l","s">> >>
    >>

\* makeCasual: the replace calls, in call order
casualTable ==
    <<
      << <<"c","a","n","n","o","t">>,
         <<"c","a","n","'","t">> >>,
      << <<"w","i","l","l"," ","n","o","t">>,
         <<"w","o","n","'","t">> >>,
      << <<"d","o","e","s"," ","n","o","t">>,
         <<"d","o","e","s","n","'","t">> >>,
      << <<"i","s"," ","n","o","t">>,
         <<"i","s","n","'","t">> >>,
      << <<"I","t"," ","i","s"," ","m","y"," ","o","p","i","n","i","o","n"," ","t","h","a","t">>,
         <<"I"," ","t","h","i","n","k">> >>,
      << <<"p","e","r","h","a","p","s">>,
         <<"m","a","y","b","e">> >>,
      << <<"a","c","c","e","p","t","a","b","l","e">>,
         <<"o","k","a","y">> >>,
      << <<"s","o","m","e","w","h","a","t">>,
         <<"k","i","n","d"," ","o","f">> >>,
      << <<"i","n","d","i","v","i","d","u","a","l","s">>,
         <<"p","e","o","p","l","e">> >>
    >>

\* improveText: the single-word fixes, in call order
typoTable ==
    <<
      << <<"t","e","h">>,
         <<"t","h","e">> >>,
      << <<"n","a","d">>,
         <<"a","n","d">> >>
    >>

\* improveText: /\\bA\\s+B\\b/g -> B, as << A, B >>, in call order
doubledTable ==
    <<
      << <<"w","a","s">>,
         <<"w","e","r","e">> >>,
      << <<"t","h","e","i","r">>,
         <<"t","h","e","y">> >>,
      << <<"y","o","u","r">>,
         <<"y","o","u">> >>
    >>


\* shortenText(text)
shortenText(text) ==
    LET sentences == sentencesOf(text)
        trimmed == [ i \in DOMAIN sentences |-> trim(sentences[i]) ]
        \* .filter((s, i) => i < Math.ceil(sentences.length * 0.7)), i from 0
        kept == SubSeq(trimmed, 1, Ceil70(Len(sentences)))
    IN  IF Len(sentences) <= 1 THEN Str(text)
        ELSE Str(join(kept, <<".", " ">>) \o <<".">>)

\* text.replace(/\b(good|bad|nice|great)\b/gi, match => expansions[match.toLowerCase()] || match)
Expand(s) ==
    Scan([ i \in DOMAIN s |->
             IF \E k \in DOMAIN expansions : MatchWord(s, i, expansions[k][1], TRUE)
             THEN LET alt == CHOOSE k \in DOMAIN expansions :
                                /\ MatchWord(s, i, expansions[k][1], TRUE)
                                /\ \A j \in 1 .. (k - 1) : ~MatchWord(s, i, expansions[j][1], TRUE)
                      match == SubSeq(s, i, i + Len(expansions[alt][1]) - 1)
                  IN  [emit |-> Lookup(expansions, toLowerCase(match), match),
                       next |-> i + Len(match)]
             ELSE Keep(s, i) ])

\* lengthenText(text)
lengthenText(text) ==
    LET step1 == Expand(text)
        step2 == ReplaceLiteral(step1, <<".", " ">>, <<"."," ","F","u","r","t","h","e","r","m","o","r","e",","," ">>)
        enhanced == ReplaceWord(step2, <<"t","h","i","s">>,
                                <<"t","h","i","s"," ","p","a","r","t","i","c","u","l","a","r"," ","a","s","p","e","c","t">>, TRUE)
    IN  Str(enhanced \o LengthenClosing)

\* text.replace(/\bvery (\w+)/gi, (match, word) => intensifiers[word.toLowerCase()] || match)
Intensify(s) ==
    LET very == <<"v","e","r","y"," ">>
    IN  Scan([ i \in DOMAIN s |->
                 LET e == RunEnd(s, i + Len(very), WordChars)
                 IN  IF EqAt(s, i, very, TRUE) /\ WordBoundary(s, i) /\ e >= i + Len(very)
                     THEN [emit |-> Lookup(intensifiers,
                                           toLowerCase(SubSeq(s, i + Len(very), e)),
                                           SubSeq(s, i, e)),
                           next |-> e + 1]
                     ELSE Keep(s, i) ])

\* text.replace(/\bthing(s?)\b/gi, 'element$1')
ReplaceThing(s) ==
    LET thing == <<"t","h","i","n","g">>
        things == <<"t","h","i","n","g","s">>
        element == <<"e","l","e","m","e","n","t">>
    IN  Scan([ i \in DOMAIN s |->
                 IF MatchWord(s, i, things, TRUE)
                 THEN [emit |-> element \o <<s[i + 5]>>, next |-> i + 6]
                 ELSE IF MatchWord(s, i, thing, TRUE)
                 THEN [emit |-> element, next |-> i + 5]
                 ELSE Keep(s, i) ])

\* improveWriting(text)
improveWriting(text) ==
    Str(ReplaceTable(ReplaceThing(Intensify(text)), improveWritingTable, TRUE))

\* a variant whose replacement for okay is a word that an earlier replace call rewrites
makeFormalChained(text) ==
    Str(ReplaceTable(text, [formalTable EXCEPT ![7] = << <<"o","k","a","y">>, <<"m","a","y","b","e">> >>], TRUE))

\* makeFormal(text)
makeFormal(text) == Str(ReplaceTable(text, formalTable, TRUE))

\* makeCasual(text)
makeCasual(text) == Str(ReplaceTable(text, casualTable, TRUE))

\* the table rows of convertToTable: sentences.forEach((sentence, i) => table += ...)
RECURSIVE TableRows(_, _)
TableRows(sentences, i) ==
    IF i > Len(sentences) THEN <<>>
    ELSE <<"|", " ">> \o NumberToString(i) \o <<" ", "|", " ">> \o trim(sentences[i])
            \o <<" ", "|", "\n">> \o TableRows(sentences, i + 1)

\* a variant that numbers the rows as forEach counts them, from 0
convertToTableFromZero(text) ==
    LET sentences == sentencesOf(text)
        row(i) == <<"|", " ">> \o NumberToString(i - 1) \o <<" ", "|", " ">>
                     \o trim(sentences[i]) \o <<" ", "|", "\n">>
        rows == [ i \in DOMAIN sentences |-> row(i) ]
    IN  IF Len(sentences) < 2 THEN Str(text)
        ELSE Str(TableHeader \o join(rows, <<>>))

\* convertToTable(text)
convertToTable(text) ==
    LET sentences == sentencesOf(text)
    IN  IF Len(sentences) < 2 THEN Str(text)
        ELSE Str(TableHeader \o TableRows(sentences, 1))

\* convertToList(text)
convertToList(text) ==
    LET sentences == sentencesOf(text)
        bullets == [ i \in DOMAIN sentences |-> <<Bullet, " ">> \o trim(sentences[i]) ]
    IN  IF Len(sentences) < 2 THEN Str(text)
        ELSE Str(join(bullets, <<"\n">>))

\* Array.prototype.slice(0, n)
slice0(xs, n) == SubSeq(xs, 1, IF n < Len(xs) THEN n ELSE Len(xs))

\* summarizeText(text); .trim() of an undefined first piece would throw
summarizeText(text) ==
    LET words == SplitRuns(text, SpaceChars)
        first == ArrayAt(splitSentences(text), 0)
        long == filterAt(words, { i \in DOMAIN words : Len(words[i]) > 5 })
        keyWords == join(slice0(long, 5), <<",", " ">>)
    IN  IF Len(words) <= 20 THEN Str(text)
        ELSE IF ~IsString(first) THEN Thrown
        ELSE Str(SummaryPrefix \o trim(first.v) \o KeyTermsInfix \o keyWords \o <<".">>)

\* a variant that tests the cues of the casual tone before those of the formal tone
customEditCasualFirst(text, prompt) ==
    IF \/ includes(toLowerCase(prompt), <<"c","a","s","u","a","l">>)
       \/ includes(toLowerCase(prompt), <<"f","r","i","e","n","d","l","y">>)
    THEN makeCasual(text)
    ELSE IF \/ includes(toLowerCase(prompt), <<"p","r","o","f","e","s","s","i","o","n","a","l">>)
            \/ includes(toLowerCase(prompt), <<"f","o","r","m","a","l">>)
    THEN makeFormal(text)
    ELSE IF \/ includes(toLowerCase(prompt), <<"s","h","o","r","t","e","r">>)
            \/ includes(toLowerCase(prompt), <<"c","o","n","c","i","s","e">>)
    THEN shortenText(text)
    ELSE IF \/ includes(toLowerCase(prompt), <<"l","o","n","g","e","r">>)
            \/ includes(toLowerCase(prompt), <<"d","e","t","a","i","l">>)
    THEN lengthenText(text)
    ELSE improveWriting(text)

\* customEdit(text, prompt)
customEdit(text, prompt) ==
    LET lowerPrompt == toLowerCase(prompt)
    IN  IF \/ includes(lowerPrompt, <<"p","r","o","f","e","s","s","i","o","n","a","l">>)
           \/ includes(lowerPrompt, <<"f","o","r","m","a","l">>)
        THEN makeFormal(text)
        ELSE IF \/ includes(lowerPrompt, <<"c","a","s","u","a","l">>)
                \/ includes(lowerPrompt, <<"f","r","i","e","n","d","l","y">>)
        THEN makeCasual(text)
        ELSE IF \/ includes(lowerPrompt, <<"s","h","o","r","t","e","r">>)
                \/ includes(lowerPrompt, <<"c","o","n","c","i","s","e">>)
        THEN shortenText(text)
        ELSE IF \/ includes(lowerPrompt, <<"l","o","n","g","e","r">>)
                \/ includes(lowerPrompt, <<"d","e","t","a","i","l">>)
        THEN lengthenText(text)
        ELSE improveWriting(text)

\* s.replace(/\s+/g, ' ')
CollapseSpaces(s) ==
    Scan([ i \in DOMAIN s |->
             IF IsSpace(s[i]) THEN [emit |-> <<" ">>, next |-> RunEnd(s, i, SpaceChars) + 1]
             ELSE Keep(s, i) ])

\* s.replace(/c+/g, 'c') for one character c
CollapseChar(s, c) ==
    Scan([ i \in DOMAIN s |->
             IF s[i] = c THEN [emit |-> <<c>>, next |-> RunEnd(s, i, {c}) + 1]
             ELSE Keep(s, i) ])

\* s.replace(/(^|[.!?]\s+)([a-z])/g, (match, p1, p2) => p1 + p2.toUpperCase())
CapitalizeSentences(s) ==
    [ i \in DOMAIN s |->
        IF /\ IsLower(s[i])
           /\ \/ i = 1
              \/ \E j \in 1 .. (i - 2) :
                    /\ IsTerminator(s[j])
                    /\ \A k \in (j + 1) .. (i - 1) : IsSpace(s[k])
        THEN ToUpperChar(s[i]) ELSE s[i] ]

\* s.replace(/\bA\s+B\b/g, B)
ReplaceDoubled(s, a, b) ==
    Scan([ i \in DOMAIN s |->
             LET r == RunEnd(s, i + Len(a), SpaceChars)
             IN  IF /\ EqAt(s, i, a, FALSE)
                    /\ WordBoundary(s, i)
                    /\ r >= i + Len(a)
                    /\ EqAt(s, r + 1, b, FALSE)
                    /\ WordBoundary(s, r + 1 + Len(b))
                 THEN [emit |-> b, next |-> r + 1 + Len(b)]
                 ELSE Keep(s, i) ])

RECURSIVE ReplaceDoubledTable(_, _)
ReplaceDoubledTable(s, table) ==
    IF table = <<>> THEN s
    ELSE ReplaceDoubledTable(ReplaceDoubled(s, table[1][1], table[1][2]), Tail(table))

\* a variant that applies the transform of the edit type improve to the document
improveTextAsWriting(text) == improveWriting(text)

\* improveText(text); a falsy text is returned as it is
improveText(text) ==
    LET step1 == ReplaceWord(text, <<"i">>, <<"I">>, FALSE)
        step2 == CollapseSpaces(step1)
        step3 == CollapseChar(step2, ".")
        step4 == CollapseChar(step3, "?")
        step5 == CollapseChar(step4, "!")
        step6 == trim(CollapseChar(step5, ","))
        step7 == CapitalizeSentences(step6)
        step8 == ReplaceTable(step7, typoTable, FALSE)
    IN  IF text = <<>> THEN Str(text)
        ELSE Str(ReplaceDoubledTable(step8, doubledTable))

\* s.replace(/\.([A-Z])/g, '. $1')
SpaceAfterPeriod(s) ==
    Scan([ i \in DOMAIN s |->
             IF s[i] = "." /\ i < Len(s) /\ IsUpper(s[i + 1])
             THEN [emit |-> <<".", " ", s[i + 1]>>, next |-> i + 2]
             ELSE Keep(s, i) ])

\* s.replace(/\n{3,}/g, '\n\n')
CollapseBlankLines(s) ==
    Scan([ i \in DOMAIN s |->
             LET r == RunEnd(s, i, {"\n"})
             IN  IF r - i + 1 >= 3 THEN [emit |-> <<"\n", "\n">>, next |-> r + 1]
                 ELSE Keep(s, i) ])

\* The list rule of formatDocument, the replace call whose pattern is: line start,
\* a dash or a star, greedy \s (zero or more), then group 2 (one or more of any
\* character but a line break) up to the line end; it writes a bullet, a space and
\* group 2.  The \s run may cross line breaks; group 2 starts at the first character
\* after the run, or, when the run reaches the end of the text, at the last character
\* of the run that is no line break (the regular expression backtracks to it).
BulletLines(s) ==
    Scan([ i \in DOMAIN s |->
             LET atLineStart == i = 1 \/ IsLineBreak(s[i - 1])
                 r == RunEnd(s, i + 1, SpaceChars)
                 inRun == { k \in (i + 1) .. r : ~IsLineBreak(s[k]) }
                 g == IF r < Len(s) THEN r + 1
                      ELSE IF inRun # {} THEN SetMax(inRun)
                      ELSE 0
                 \* the last index of the line that holds s[g]
                 e == RunEnd(s, g, Range(s) \ LineBreakChars)
             IN  IF atLineStart /\ s[i] \in {"-", "*"} /\ g > 0
                 THEN [emit |-> <<Bullet, " ">> \o SubSeq(s, g, e), next |-> e + 1]
                 ELSE Keep(s, i) ])

\* formatDocument(text); a falsy text is returned as it is
formatDocument(text) ==
    LET formatted == BulletLines(CollapseBlankLines(SpaceAfterPeriod(text)))
        \* lines[0] of formatted.split('\n')
        line0 == SubSeq(formatted, 1, RunEnd(formatted, 1, Range(formatted) \ {"\n"}))
    IN  IF text = <<>> THEN Str(text)
        ELSE IF Len(line0) < 60 /\ ~includes(line0, <<".">>)
             THEN Str(<<"#", " ">> \o formatted)
             ELSE Str(formatted)

\* the message of getTextEdit's result
EditMessage(editType, customPrompt) ==
    CASE editType = "shorten" -> MsgShorten
      [] editType = "lengthen" -> MsgLengthen
      [] editType = "improve" -> MsgImprove
      [] editType = "formal" -> MsgFormal
      [] editType = "casual" -> MsgCasual
      [] editType = "table" -> MsgTable
      [] editType = "list" -> MsgList
      [] editType = "summarize" -> MsgSummarize
      [] editType = "custom" -> MsgCustomPrefix \o customPrompt
      [] OTHER -> MsgDefault

\* a variant whose default case throws, as the default case of callAI does
EditedTextStrict(editType, selectedText, customPrompt) ==
    CASE editType = "shorten" -> shortenText(selectedText)
      [] editType = "lengthen" -> lengthenText(selectedText)
      [] editType = "improve" -> improveWriting(selectedText)
      [] editType = "formal" -> makeFormal(selectedText)
      [] editType = "casual" -> makeCasual(selectedText)
      [] editType = "table" -> convertToTable(selectedText)
      [] editType = "list" -> convertToList(selectedText)
      [] editType = "summarize" -> summarizeText(selectedText)
      [] editType = "custom" -> customEdit(selectedText, customPrompt)
      [] OTHER -> Thrown

\* the switch of getTextEdit
EditedText(editType, selectedText, customPrompt) ==
    CASE editType = "shorten" -> shortenText(selectedText)
      [] editType = "lengthen" -> lengthenText(selectedText)
      [] editType = "improve" -> improveWriting(selectedText)
      [] editType = "formal" -> makeFormal(selectedText)
      [] editType = "casual" -> makeCasual(selectedText)
      [] editType = "table" -> convertToTable(selectedText)
      [] editType = "list" -> convertToList(selectedText)
      [] editType = "summarize" -> summarizeText(selectedText)
      [] editType = "custom" -> customEdit(selectedText, customPrompt)
      [] OTHER -> improveText(selectedText)

(***************************************************************************)
(* What the timer callback of getTextEdit does with the promise: it        *)
(* resolves it with the result object, or, when the switch throws, leaves  *)
(* it pending for ever (an exception in a timer callback settles nothing). *)
(***************************************************************************)
getTextEdit(editType, selectedText, customPrompt) ==
    LET editedText == EditedText(editType, selectedText, customPrompt)
    IN  IF editedText = Thrown THEN [status |-> "threw"]
        ELSE [status |-> "resolved",
              value |-> [originalText |-> Str(selectedText),
                         editedText |-> editedText,
                         message |-> Str(EditMessage(editType, customPrompt)),
                         editType |-> editType]]

(***************************************************************************)
(* JavaScript values of any type: what a provider returns and what         *)
(* JSON.parse yields                                                       *)
(***************************************************************************)
Bool(b) == [t |-> "boolean", v |-> b]

\* an array, as the sequence of its elements
Arr(xs) == [t |-> "array", v |-> xs]

\* a[i] for a value of any type (i counts from 0); undefined[i] and null[i] throw
At(a, i) ==
    CASE a.t \in {"undefined", "null", "throw"} -> Thrown
      [] a.t = "array" -> IF i + 1 \in DOMAIN a.v THEN a.v[i + 1] ELSE Undefined
      [] a.t = "string" -> IF i + 1 \in DOMAIN a.v THEN Str(<<a.v[i + 1]>>) ELSE Undefined
      [] OTHER -> Undefined

\* the object without properties
EmptyObject == Obj([k \in {} |-> Undefined])

(***************************************************************************)
(* JSON.  The parser reads the JSON texts without nesting: null, true,     *)
(* false, integers, strings with the escapes for the quote, the backslash, *)
(* the slash and the line break, and objects whose members are such        *)
(* values; white space is allowed where JSON allows it.  Any other text is *)
(* a SyntaxError, which is exact for every text the model hands to it.     *)
(* Of an object, the properties the program reads are kept.                *)
(***************************************************************************)
JsonWhitespace == {" ", "\n", "\t", "\r"}

Digits == <<"0","1","2","3","4","5","6","7","8","9">>

\* the names of the properties that the program reads from parsed JSON
PropertyNames ==
    << <<<<"t","y","p","e">>, "type">>, <<<<"d","a","t","a">>, "data">>,
       <<<<"a","c","t","i","o","n">>, "action">>, <<<<"m","e","s","s","a","g","e">>, "message">>,
       <<<<"n","e","w","C","o","n","t","e","n","t">>, "newContent">> >>

\* the escape sequence that JSON.stringify writes for c, or c itself
EscapeChar(c) ==
    CASE c = "\"" -> <<"\\", "\"">>
      [] c = "\\" -> <<"\\", "\\">>
      [] c = "\n" -> <<"\\", "n">>
      [] c = "\t" -> <<"\\", "t">>
      [] c = "\r" -> <<"\\", "r">>
      [] OTHER -> <<c>>

\* JSON.stringify of a string
QuoteString(s) ==
    <<"\"">> \o Scan([ i \in DOMAIN s |-> [emit |-> EscapeChar(s[i]), next |-> i + 1] ]) \o <<"\"">>

\* JSON.stringify of a value that is no object
StringifyScalar(x) ==
    CASE x.t = "string" -> QuoteString(x.v)
      [] x.t = "number" -> IF x.v < 0 THEN <<"-">> \o NumberToString(0 - x.v)
                           ELSE NumberToString(x.v)
      [] x.t = "boolean" -> IF x.v THEN <<"t","r","u","e">> ELSE <<"f","a","l","s","e">>
      [] OTHER -> <<"n","u","l","l">>

\* JSON.stringify of an object literal << <<key, value>>, ... >>, keys in the order of
\* the literal; a property whose value is undefined is left out
JSONStringify(members) ==
    LET present == filterAt(members, { i \in DOMAIN members : members[i][2] # Undefined })
        texts == [ i \in DOMAIN present |->
                     QuoteString(present[i][1]) \o <<":">> \o StringifyScalar(present[i][2]) ]
    IN  <<"{">> \o join(texts, <<",">>) \o <<"}">>

\* the index after the white space that starts at i
SkipWhitespace(s, i) == RunEnd(s, i, JsonWhitespace) + 1

\* the number of backslashes that stand directly before s[j], counted back to from
BackslashesBefore(s, from, j) ==
    LET others == { m \in from .. (j - 1) : s[m] # "\\" }
    IN  IF others = {} THEN j - from ELSE j - 1 - SetMax(others)

\* the closing quote of the string whose opening quote is s[i] (0 if there is none)
StringEnd(s, i) ==
    LET closing == { j \in (i + 1) .. Len(s) :
                       s[j] = "\"" /\ BackslashesBefore(s, i + 1, j) % 2 = 0 }
    IN  IF closing = {} THEN 0 ELSE SetMin(closing)

\* the characters that the body of a string denotes; "invalid" marks what JSON forbids
UnescapeString(body) ==
    Scan([ i \in DOMAIN body |->
             IF body[i] = "\\"
             THEN [emit |-> IF i = Len(body) THEN <<"invalid">>
                            ELSE CASE body[i + 1] = "\"" -> <<"\"">>
                                   [] body[i + 1] = "\\" -> <<"\\">>
                                   [] body[i + 1] = "/" -> <<"/">>
                                   [] body[i + 1] = "n" -> <<"\n">>
                                   [] body[i + 1] = "t" -> <<"\t">>
                                   [] body[i + 1] = "r" -> <<"\r">>
                                   [] OTHER -> <<"invalid">>,
                   next |-> i + 2]
             ELSE IF body[i] \in {"\n", "\t", "\r"} THEN [emit |-> <<"invalid">>, next |-> i + 1]
             ELSE Keep(body, i) ])

\* the value of a sequence of digits
RECURSIVE DigitsValue(_)
DigitsValue(ds) ==
    IF ds = <<>> THEN 0
    ELSE 10 * DigitsValue(SubSeq(ds, 1, Len(ds) - 1))
         + (CHOOSE d \in 0 .. 9 : Digits[d + 1] = ds[Len(ds)])

ParseFailure == [ok |-> FALSE, value |-> Thrown, next |-> 0]

\* the string whose body is text and whose closing quote is s[close]
StringValue(text, close) ==
    IF close = 0 \/ "invalid" \in Range(text) THEN ParseFailure
    ELSE [ok |-> TRUE, value |-> Str(text), next |-> close + 1]

\* the number that token denotes, digits being token without its sign
NumberValue(token, digits, next) ==
    IF /\ digits # <<>>
       /\ Range(digits) \subseteq Range(Digits)
       /\ (Len(digits) = 1 \/ digits[1] # "0")
    THEN [ok |-> TRUE,
          value |-> Num(IF token[1] = "-" THEN 0 - DigitsValue(digits) ELSE DigitsValue(digits)),
          next |-> next]
    ELSE ParseFailure

\* the literal or number that token denotes
TokenValue(token, next) ==
    IF token = <<"n","u","l","l">> THEN [ok |-> TRUE, value |-> Null, next |-> next]
    ELSE IF token = <<"t","r","u","e">> THEN [ok |-> TRUE, value |-> Bool(TRUE), next |-> next]
    ELSE IF token = <<"f","a","l","s","e">> THEN [ok |-> TRUE, value |-> Bool(FALSE), next |-> next]
    ELSE NumberValue(token, IF token # <<>> /\ token[1] = "-" THEN Tail(token) ELSE token, next)

\* the token that ends at s[tokenEnd]
TokenAt(s, i, tokenEnd) == TokenValue(SubSeq(s, i, tokenEnd), tokenEnd + 1)

\* the string whose opening quote is s[i]
StringAt(s, i, close) == StringValue(UnescapeString(SubSeq(s, i + 1, close - 1)), close)

\* the value without nesting that starts at s[i], and the index after it
ParseScalarAt(s, i) ==
    IF i > Len(s) THEN ParseFailure
    ELSE IF s[i] = "\"" THEN StringAt(s, i, StringEnd(s, i))
    ELSE TokenAt(s, i, RunEnd(s, i, Range(s) \ (JsonWhitespace \cup {",", "}", ":", "\"", "{"})))

\* the members f with the member name: x; the program reads the PropertyNames only
WithMember(f, name, x) ==
    IF name = "" THEN f
    ELSE [ k \in DOMAIN f \cup {name} |-> IF k = name THEN x ELSE f[k] ]

\* the members "key": value, ... that start at s[i], up to the closing brace; a later
\* member of the same name replaces an earlier one
RECURSIVE ParseMembersAt(_, _, _)
\* after a member: the closing brace, or a comma and the next member
MemberEnd(s, g, after) ==
    IF after > Len(s) THEN ParseFailure
    ELSE IF s[after] = "}" THEN [ok |-> TRUE, value |-> Obj(g), next |-> after + 1]
    ELSE IF s[after] = "," THEN ParseMembersAt(s, SkipWhitespace(s, after + 1), g)
    ELSE ParseFailure

MemberValue(s, f, keyText, value) ==
    IF ~value.ok THEN ParseFailure
    ELSE MemberEnd(s, WithMember(f, Lookup(PropertyNames, keyText, ""), value.value),
                   SkipWhitespace(s, value.next))

MemberColon(s, f, keyText, colon) ==
    IF colon > Len(s) \/ s[colon] # ":" THEN ParseFailure
    ELSE MemberValue(s, f, keyText, ParseScalarAt(s, SkipWhitespace(s, colon + 1)))

MemberKey(s, f, key) ==
    IF ~key.ok \/ key.value.t # "string" THEN ParseFailure
    ELSE MemberColon(s, f, key.value.v, SkipWhitespace(s, key.next))

ParseMembersAt(s, i, f) == MemberKey(s, f, ParseScalarAt(s, i))

\* the object whose first member or closing brace is s[first]
ParseObjectAt(s, first) ==
    IF first <= Len(s) /\ s[first] = "}"
    THEN [ok |-> TRUE, value |-> EmptyObject, next |-> first + 1]
    ELSE ParseMembersAt(s, first, EmptyObject.f)

ParseValueAt(s, i) ==
    IF i <= Len(s) /\ s[i] = "{" THEN ParseObjectAt(s, SkipWhitespace(s, i + 1))
    ELSE ParseScalarAt(s, i)

\* the parsed value when only white space follows it
WholeText(s, parsed) ==
    IF parsed.ok /\ SkipWhitespace(s, parsed.next) = Len(s) + 1 THEN parsed.value
    ELSE Thrown

\* JSON.parse of a text
ParseText(s) == WholeText(s, ParseValueAt(s, SkipWhitespace(s, 1)))

\* JSON.parse(x): x is converted to a string first ("undefined" is no JSON text, "null" is)
JSONParse(x) ==
    CASE x.t = "string" -> ParseText(x.v)
      [] x.t = "null" -> Null
      [] x.t = "number" -> x
      [] x.t = "boolean" -> x
      [] OTHER -> Thrown


(***************************************************************************)
(* The simulation chat mode of AIService                                   *)
(***************************************************************************)

MsgImproved ==
    <<"I","'","v","e"," ","i","m","p","r","o","v","e","d"," ","t","h","e"," ","g","r","a","m",
      "m","a","r"," ","a","n","d"," ","s","t","y","l","e"," ","o","f"," ","y","o","u","r"," ",
      "d","o","c","u","m","e","n","t","!">>

MsgAdded ==
    <<"I","'","v","e"," ","a","d","d","e","d"," ","r","e","l","e","v","a","n","t"," ","c","o",
      "n","t","e","n","t"," ","t","o"," ","y","o","u","r"," ","d","o","c","u","m","e","n","t",
      "!">>

MsgSummaryAdded ==
    <<"I","'","v","e"," ","a","d","d","e","d"," ","a"," ","s","u","m","m","a","r","y"," ","t",
      "o"," ","y","o","u","r"," ","d","o","c","u","m","e","n","t","!">>

MsgNothingToSummarize ==
    <<"T","h","e","r","e","'","s"," ","n","o"," ","c","o","n","t","e","n","t"," ","t","o"," ",
      "s","u","m","m","a","r","i","z","e"," ","y","e","t","."," ","P","l","e","a","s","e"," ",
      "a","d","d"," ","s","o","m","e"," ","t","e","x","t"," ","f","i","r","s","t",","," ","a",
      "n","d"," ","I","'","l","l"," ","b","e"," ","h","a","p","p","y"," ","t","o"," ","c","r",
      "e","a","t","e"," ","a"," ","s","u","m","m","a","r","y","!">>

MsgFormatted ==
    <<"I","'","v","e"," ","i","m","p","r","o","v","e","d"," ","t","h","e"," ","f","o","r","m",
      "a","t","t","i","n","g"," ","a","n","d"," ","o","r","g","a","n","i","z","a","t","i","o",
      "n"," ","o","f"," ","y","o","u","r"," ","d","o","c","u","m","e","n","t","!">>

IntroductionContent ==
    <<"\n","\n","#","#"," ","I","n","t","r","o","d","u","c","t","i","o","n","\n","\n","T","h",
      "i","s"," ","d","o","c","u","m","e","n","t"," ","s","e","r","v","e","s"," ","a","s"," ",
      "a"," ","c","o","m","p","r","e","h","e","n","s","i","v","e"," ","g","u","i","d","e"," ",
      "t","h","a","t"," ","a","i","m","s"," ","t","o"," ","p","r","o","v","i","d","e"," ","v",
      "a","l","u","a","b","l","e"," ","i","n","s","i","g","h","t","s"," ","a","n","d"," ","i",
      "n","f","o","r","m","a","t","i","o","n"," ","o","n"," ","t","h","e"," ","t","o","p","i",
      "c"," ","a","t"," ","h","a","n","d","."," ","T","h","r","o","u","g","h"," ","c","a","r",
      "e","f","u","l"," ","a","n","a","l","y","s","i","s"," ","a","n","d"," ","r","e","s","e",
      "a","r","c","h",","," ","w","e"," ","p","r","e","s","e","n","t"," ","t","h","e"," ","f",
      "o","l","l","o","w","i","n","g"," ","f","i","n","d","i","n","g","s"," ","a","n","d"," ",
      "r","e","c","o","m","m","e","n","d","a","t","i","o","n","s",".">>

ConclusionContent ==
    <<"\n","\n","#","#"," ","C","o","n","c","l","u","s","i","o","n","\n","\n","I","n"," ","c",
      "o","n","c","l","u","s","i","o","n",","," ","t","h","e"," ","p","o","i","n","t","s"," ",
      "d","i","s","c","u","s","s","e","d"," ","a","b","o","v","e"," ","h","i","g","h","l","i",
      "g","h","t"," ","t","h","e"," ","i","m","p","o","r","t","a","n","c","e"," ","o","f"," ",
      "t","h","i","s"," ","t","o","p","i","c"," ","a","n","d"," ","i","t","s"," ","i","m","p",
      "l","i","c","a","t","i","o","n","s"," ","f","o","r"," ","f","u","t","u","r","e"," ","d",
      "e","v","e","l","o","p","m","e","n","t","."," ","W","e"," ","r","e","c","o","m","m","e",
      "n","d"," ","c","o","n","t","i","n","u","e","d"," ","r","e","s","e","a","r","c","h"," ",
      "a","n","d"," ","i","m","p","l","e","m","e","n","t","a","t","i","o","n"," ","o","f"," ",
      "t","h","e"," ","s","t","r","a","t","e","g","i","e","s"," ","o","u","t","l","i","n","e",
      "d"," ","i","n"," ","t","h","i","s"," ","d","o","c","u","m","e","n","t",".">>

GenericContent ==
    <<"\n","\n","[","A","I"," ","G","e","n","e","r","a","t","e","d"," ","C","o","n","t","e","n",
      "t","]","\n","T","h","i","s"," ","a","d","d","i","t","i","o","n","a","l"," ","c","o","n",
      "t","e","n","t"," ","h","a","s"," ","b","e","e","n"," ","g","e","n","e","r","a","t","e",
      "d"," ","b","a","s","e","d"," ","o","n"," ","y","o","u","r"," ","r","e","q","u","e","s",
      "t","."," ","I","t"," ","p","r","o","v","i","d","e","s"," ","s","u","p","p","l","e","m",
      "e","n","t","a","r","y"," ","i","n","f","o","r","m","a","t","i","o","n"," ","t","h","a",
      "t"," ","c","o","m","p","l","e","m","e","n","t","s"," ","t","h","e"," ","e","x","i","s",
      "t","i","n","g"," ","t","e","x","t"," ","a","n","d"," ","e","n","h","a","n","c","e","s",
      " ","t","h","e"," ","o","v","e","r","a","l","l"," ","q","u","a","l","i","t","y"," ","o",
      "f"," ","t","h","e"," ","d","o","c","u","m","e","n","t",".">>

SummaryHead ==
    <<"\n","\n","#","#"," ","S","u","m","m","a","r","y","\n","T","h","i","s"," ","d","o","c",
      "u","m","e","n","t"," ","c","o","n","t","a","i","n","s"," ">>

SummaryTail ==
    <<" ","w","o","r","d","s"," ","c","o","v","e","r","i","n","g"," ","t","h","e"," ","m","a",
      "i","n"," ","t","o","p","i","c","s"," ","d","i","s","c","u","s","s","e","d"," ","a","b",
      "o","v","e","."," ","T","h","e"," ","k","e","y"," ","p","o","i","n","t","s"," ","h","a",
      "v","e"," ","b","e","e","n"," ","o","r","g","a","n","i","z","e","d"," ","t","o"," ","p",
      "r","o","v","i","d","e"," ","a"," ","c","l","e","a","r"," ","u","n","d","e","r","s","t",
      "a","n","d","i","n","g"," ","o","f"," ","t","h","e"," ","s","u","b","j","e","c","t"," ",
      "m","a","t","t","e","r",".">>

\* the canned replies of the last branch
responses ==
    <<<<"I","'","m"," ","h","e","r","e"," ","t","o"," ","h","e","l","p","!"," ","Y","o","u"," ","c","a","n"," ","a","s","k"," ","m","e"," ","t","o"," ","f","i","x"," ","g","r","a","m","m","a","r",","," ","i","m","p","r","o","v","e"," ","w","r","i","t","i","n","g",","," ","a","d","d"," ","c","o","n","t","e","n","t",","," ","o","r"," ","f","o","r","m","a","t"," ","y","o","u","r"," ","d","o","c","u","m","e","n","t",".">>,
      <<"T","h","a","t","'","s"," ","a","n"," ","i","n","t","e","r","e","s","t","i","n","g"," ","q","u","e","s","t","i","o","n","!"," ","I"," ","c","a","n"," ","a","l","s","o"," ","h","e","l","p"," ","y","o","u"," ","e","d","i","t"," ","y","o","u","r"," ","d","o","c","u","m","e","n","t"," ","d","i","r","e","c","t","l","y","."," ","T","r","y"," ","a","s","k","i","n","g"," ","m","e"," ","t","o"," ","'","f","i","x"," ","g","r","a","m","m","a","r","'"," ","o","r"," ","'","a","d","d"," ","a","n"," ","i","n","t","r","o","d","u","c","t","i","o","n","'",".">>,
      <<"I","'","d"," ","b","e"," ","h","a","p","p","y"," ","t","o"," ","a","s","s","i","s","t"," ","y","o","u","!"," ","S","o","m","e"," ","t","h","i","n","g","s"," ","I"," ","c","a","n"," ","d","o",":"," ","i","m","p","r","o","v","e"," ","t","e","x","t",","," ","a","d","d"," ","s","u","m","m","a","r","i","e","s",","," ","f","i","x"," ","f","o","r","m","a","t","t","i","n","g",","," ","o","r"," ","j","u","s","t"," ","c","h","a","t"," ","a","b","o","u","t"," ","y","o","u","r"," ","d","o","c","u","m","e","n","t",".">>,
      <<"G","r","e","a","t"," ","q","u","e","s","t","i","o","n","!"," ","I"," ","c","a","n"," ","p","r","o","v","i","d","e"," ","s","u","g","g","e","s","t","i","o","n","s"," ","o","r"," ","d","i","r","e","c","t","l","y"," ","m","o","d","i","f","y"," ","y","o","u","r"," ","d","o","c","u","m","e","n","t","."," ","J","u","s","t"," ","l","e","t"," ","m","e"," ","k","n","o","w"," ","w","h","a","t"," ","y","o","u"," ","n","e","e","d"," ","-"," ","I"," ","c","a","n"," ","a","d","d"," ","c","o","n","t","e","n","t",","," ","f","i","x"," ","g","r","a","m","m","a","r",","," ","o","r"," ","o","r","g","a","n","i","z","e"," ","y","o","u","r"," ","t","e","x","t",".">>,
      <<"I","'","m"," ","y","o","u","r"," ","A","I"," ","w","r","i","t","i","n","g"," ","a","s","s","i","s","t","a","n","t","!"," ","I"," ","c","a","n"," ","h","e","l","p"," ","i","m","p","r","o","v","e"," ","y","o","u","r"," ","d","o","c","u","m","e","n","t","'","s"," ","g","r","a","m","m","a","r",","," ","a","d","d"," ","n","e","w"," ","c","o","n","t","e","n","t",","," ","c","r","e","a","t","e"," ","s","u","m","m","a","r","i","e","s",","," ","o","r"," ","a","n","s","w","e","r"," ","a","n","y"," ","q","u","e","s","t","i","o","n","s"," ","y","o","u"," ","h","a","v","e",".">>,
      <<"F","e","e","l"," ","f","r","e","e"," ","t","o"," ","a","s","k"," ","m","e"," ","a","n","y","t","h","i","n","g","!"," ","I"," ","c","a","n"," ","a","l","s","o"," ","e","d","i","t"," ","y","o","u","r"," ","d","o","c","u","m","e","n","t"," ","d","i","r","e","c","t","l","y"," ","-"," ","t","r","y"," ","a","s","k","i","n","g"," ","m","e"," ","t","o"," ","'","i","m","p","r","o","v","e"," ","t","h","e"," ","w","r","i","t","i","n","g","'"," ","o","r"," ","'","a","d","d"," ","a"," ","c","o","n","c","l","u","s","i","o","n","'",".">>,
      <<"I","'","m"," ","d","e","s","i","g","n","e","d"," ","t","o"," ","h","e","l","p"," ","w","i","t","h"," ","b","o","t","h"," ","c","o","n","v","e","r","s","a","t","i","o","n"," ","a","n","d"," ","d","o","c","u","m","e","n","t"," ","e","d","i","t","i","n","g","."," ","W","h","a","t"," ","w","o","u","l","d"," ","y","o","u"," ","l","i","k","e"," ","m","e"," ","t","o"," ","h","e","l","p"," ","y","o","u"," ","w","i","t","h"," ","t","o","d","a","y","?">>,
      <<"T","h","a","t","'","s"," ","a"," ","g","o","o","d"," ","p","o","i","n","t","!"," ","I"," ","c","a","n"," ","a","l","s","o"," ","a","s","s","i","s","t"," ","w","i","t","h"," ","y","o","u","r"," ","d","o","c","u","m","e","n","t"," ","-"," ","w","h","e","t","h","e","r"," ","y","o","u"," ","n","e","e","d"," ","g","r","a","m","m","a","r"," ","f","i","x","e","s",","," ","a","d","d","i","t","i","o","n","a","l"," ","c","o","n","t","e","n","t",","," ","o","r"," ","b","e","t","t","e","r"," ","f","o","r","m","a","t","t","i","n","g",".">>,
      <<"I","n","t","e","r","e","s","t","i","n","g","!"," ","W","h","i","l","e"," ","w","e"," ","c","h","a","t",","," ","r","e","m","e","m","b","e","r"," ","I"," ","c","a","n"," ","a","l","s","o"," ","d","i","r","e","c","t","l","y"," ","m","o","d","i","f","y"," ","y","o","u","r"," ","d","o","c","u","m","e","n","t","."," ","T","r","y"," ","c","o","m","m","a","n","d","s"," ","l","i","k","e"," ","'","a","d","d"," ","a","n"," ","i","n","t","r","o","d","u","c","t","i","o","n","'"," ","o","r"," ","'","f","i","x"," ","t","h","e"," ","g","r","a","m","m","a","r","'",".">>,
      <<"I"," ","u","n","d","e","r","s","t","a","n","d","!"," ","L","e","t"," ","m","e"," ","k","n","o","w"," ","i","f"," ","y","o","u","'","d"," ","l","i","k","e"," ","m","e"," ","t","o"," ","m","a","k","e"," ","a","n","y"," ","c","h","a","n","g","e","s"," ","t","o"," ","y","o","u","r"," ","d","o","c","u","m","e","n","t","."," ","I"," ","c","a","n"," ","i","m","p","r","o","v","e"," ","w","r","i","t","i","n","g",","," ","a","d","d"," ","c","o","n","t","e","n","t",","," ","o","r"," ","o","r","g","a","n","i","z","e"," ","t","h","e"," ","t","e","x","t"," ","b","e","t","t","e","r",".">>>>


\* currentDocument.split(' ').length
SpaceSplitLength(s) == Cardinality({ i \in DOMAIN s : s[i] = " " }) + 1

\* an object {action, message} and an object {action, message, newContent}
ChatTurn(message) ==
    Obj([action |-> Str(<<"c","h","a","t">>), message |-> Str(message)])

ModifyTurn(message, newContent) ==
    Obj([action |-> Str(<<"m","o","d","i","f","y">>), message |-> Str(message), newContent |-> newContent])

\* a variant that tests the cues of the summary before those of added content
simulateAIResponseSummaryFirst(userMessage, currentDocument, random) ==
    IF \/ includes(toLowerCase(userMessage), <<"f","i","x"," ","g","r","a","m","m","a","r">>)
       \/ includes(toLowerCase(userMessage), <<"c","o","r","r","e","c","t">>)
       \/ includes(toLowerCase(userMessage), <<"i","m","p","r","o","v","e">>)
    THEN ModifyTurn(MsgImproved, improveText(currentDocument))
    ELSE IF \/ includes(toLowerCase(userMessage), <<"s","u","m","m","a","r","i","z","e">>)
            \/ includes(toLowerCase(userMessage), <<"s","u","m","m","a","r","y">>)
    THEN IF trim(currentDocument) # <<>>
         THEN ModifyTurn(MsgSummaryAdded, Str(currentDocument \o SummaryHead
                            \o NumberToString(SpaceSplitLength(currentDocument)) \o SummaryTail))
         ELSE ChatTurn(MsgNothingToSummarize)
    ELSE IF /\ includes(toLowerCase(userMessage), <<"a","d","d">>)
            /\ \/ includes(toLowerCase(userMessage), <<"c","o","n","t","e","n","t">>)
               \/ includes(toLowerCase(userMessage), <<"p","a","r","a","g","r","a","p","h">>)
               \/ includes(toLowerCase(userMessage), <<"t","e","x","t">>)
    THEN ModifyTurn(MsgAdded, Str(currentDocument \o GenericContent))
    ELSE IF \/ includes(toLowerCase(userMessage), <<"f","o","r","m","a","t">>)
            \/ includes(toLowerCase(userMessage), <<"o","r","g","a","n","i","z","e">>)
    THEN ModifyTurn(MsgFormatted, formatDocument(currentDocument))
    ELSE ChatTurn(responses[random + 1])

(***************************************************************************)
(* What the timer callback of simulateAIResponse resolves the promise      *)
(* with, for the strings userMessage and currentDocument; random is        *)
(* Math.floor(Math.random() * responses.length).                           *)
(***************************************************************************)
simulateAIResponse(userMessage, currentDocument, random) ==
    LET lowerMessage == toLowerCase(userMessage)
        has(cue) == includes(lowerMessage, cue)
        addedContent ==
            IF has(<<"i","n","t","r","o","d","u","c","t","i","o","n">>) \/ has(<<"i","n","t","r","o">>) THEN IntroductionContent
            ELSE IF has(<<"c","o","n","c","l","u","s","i","o","n">>) THEN ConclusionContent
            ELSE GenericContent
        summary == SummaryHead \o NumberToString(SpaceSplitLength(currentDocument)) \o SummaryTail
    IN  IF has(<<"f","i","x"," ","g","r","a","m","m","a","r">>) \/ has(<<"c","o","r","r","e","c","t">>) \/ has(<<"i","m","p","r","o","v","e">>)
        THEN ModifyTurn(MsgImproved, improveText(currentDocument))
        ELSE IF /\ has(<<"a","d","d">>)
                /\ (has(<<"c","o","n","t","e","n","t">>) \/ has(<<"p","a","r","a","g","r","a","p","h">>) \/ has(<<"t","e","x","t">>))
        THEN ModifyTurn(MsgAdded, Str(currentDocument \o addedContent))
        ELSE IF has(<<"s","u","m","m","a","r","i","z","e">>) \/ has(<<"s","u","m","m","a","r","y">>)
        THEN IF trim(currentDocument) # <<>>
             THEN ModifyTurn(MsgSummaryAdded, Str(currentDocument \o summary))
             ELSE ChatTurn(MsgNothingToSummarize)
        ELSE IF has(<<"f","o","r","m","a","t">>) \/ has(<<"o","r","g","a","n","i","z","e">>)
        THEN ModifyTurn(MsgFormatted, formatDocument(currentDocument))
        ELSE ChatTurn(responses[random + 1])

(***************************************************************************)
(* The provider adapters, from the value data that response.json() gave to *)
(* the value the adapter returns; Thrown is the adapter throwing, which    *)
(* rejects its promise.                                                    *)
(***************************************************************************)
\* the try/catch around JSON.parse: the parsed payload, or the raw text as a chat turn
OrWrap(parsed, content) ==
    IF parsed # Thrown THEN parsed
    ELSE Obj([action |-> Str(<<"c","h","a","t">>), message |-> content])

ParseOrWrap(content) == IF content = Thrown THEN Thrown ELSE OrWrap(JSONParse(content), content)

\* callOpenAI(prompt), after the awaits
callOpenAI(data) ==
    LET choices == Get(data, "choices")
    IN  IF choices = Thrown THEN Thrown
        ELSE IF Truthy(choices) /\ Truthy(At(choices, 0))
        THEN ParseOrWrap(Get(Get(At(choices, 0), "message"), "content"))
        ELSE Thrown

\* callClaude(prompt), after the awaits
callClaude(data) ==
    LET content == Get(data, "content")
    IN  IF content = Thrown THEN Thrown
        ELSE IF Truthy(content) /\ Truthy(At(content, 0))
        THEN ParseOrWrap(Get(At(content, 0), "text"))
        ELSE Thrown

\* callGroq(prompt), after the awaits
callGroq(data) ==
    LET choices == Get(data, "choices")
    IN  IF choices = Thrown THEN Thrown
        ELSE IF Truthy(choices) /\ Truthy(At(choices, 0))
        THEN ParseOrWrap(Get(Get(At(choices, 0), "message"), "content"))
        ELSE Thrown

\* callHuggingFace(prompt), after the awaits
callHuggingFace(data) ==
    IF Truthy(data) /\ Truthy(At(data, 0)) /\ Truthy(Get(At(data, 0), "generated_text"))
    THEN Obj([action |-> Str(<<"c","h","a","t">>), message |-> Get(At(data, 0), "generated_text")])
    ELSE Thrown

\* the switch of callAI over the network providers
callProvider(provider, data) ==
    CASE provider = "openai" -> callOpenAI(data)
      [] provider = "claude" -> callClaude(data)
      [] provider = "groq" -> callGroq(data)
      [] provider = "huggingface" -> callHuggingFace(data)
      [] OTHER -> Thrown

(***************************************************************************)
(* The provider selection of the constructor                               *)
(***************************************************************************)
\* x || null
OrNull(x) == IF Truthy(x) THEN x ELSE Null

providers == <<"openai", "claude", "groq", "huggingface", "simulation">>

\* isProviderAvailable(provider), as the truth value that detectAvailableProvider tests;
\* keys are the fields of the service, env is process.env
isProviderAvailable(provider, keys, environment) ==
    CASE provider = "openai" -> Truthy(keys.openaiKey)
      [] provider = "claude" -> Truthy(keys.claudeKey)
      [] provider = "huggingface" -> Truthy(keys.huggingFaceKey)
      [] provider = "groq" -> Truthy(environment.REACT_APP_GROQ_API_KEY)
      [] provider = "simulation" -> TRUE
      [] OTHER -> FALSE

\* a variant whose loop has no break: the last available provider stays
detectLastAvailable(current, keys, environment) ==
    LET available == { i \in DOMAIN providers : isProviderAvailable(providers[i], keys, environment) }
    IN  IF available = {} THEN current ELSE providers[SetMax(available)]

\* detectAvailableProvider(): the loop stops at the first available provider, and
\* currentProvider keeps its value when there is none
detectAvailableProvider(current, keys, environment) ==
    LET available == { i \in DOMAIN providers : isProviderAvailable(providers[i], keys, environment) }
    IN  IF available = {} THEN current ELSE providers[SetMin(available)]

\* new AIService()
NewAIService(environment) ==
    LET keys == [openaiKey |-> OrNull(environment.REACT_APP_OPENAI_API_KEY),
                 claudeKey |-> OrNull(environment.REACT_APP_CLAUDE_API_KEY),
                 huggingFaceKey |-> OrNull(environment.REACT_APP_HUGGINGFACE_API_KEY)]
    IN  [openaiKey |-> keys.openaiKey,
         claudeKey |-> keys.claudeKey,
         huggingFaceKey |-> keys.huggingFaceKey,
         currentProvider |-> detectAvailableProvider("simulation", keys, environment)]

(***************************************************************************)
(* The editor of TiptapEditor, as the text of one paragraph.  What the     *)
(* Tiptap library does is taken from its documentation: getHTML wraps the  *)
(* text in a paragraph tag, setContent and insertContent parse a string as *)
(* HTML (white space collapses) and take any other value as no content.    *)
(***************************************************************************)
ParagraphOpen == <<"<","p",">">>

ParagraphClose == <<"<","/","p",">">>

\* editor.getHTML()
getHTML(text) == ParagraphOpen \o text \o ParagraphClose

\* the text that the editor shows for a content value
HTMLText(content) ==
    LET s == content.v
        wrapped == /\ Len(s) >= Len(ParagraphOpen) + Len(ParagraphClose)
                   /\ SubSeq(s, 1, Len(ParagraphOpen)) = ParagraphOpen
                   /\ SubSeq(s, Len(s) - Len(ParagraphClose) + 1, Len(s)) = ParagraphClose
        inner == IF wrapped
                 THEN SubSeq(s, Len(ParagraphOpen) + 1, Len(s) - Len(ParagraphClose))
                 ELSE s
    IN  IF content.t # "string" THEN <<>> ELSE trim(CollapseSpaces(inner))

\* editor.commands.setContent(content, false)
setContent(content) == HTMLText(content)

\* editor.state.doc.textBetween(from, to); position p stands before character p
textBetween(text, from, to) == SubSeq(text, from, to - 1)

\* editor.chain().focus().deleteRange({from, to}).insertContent(content).run()
replaceRange(text, from, to, content) ==
    IF from < 1 \/ to < from \/ to > Len(text) + 1 THEN text
    ELSE SubSeq(text, 1, from - 1) \o HTMLText(Str(content)) \o SubSeq(text, to, Len(text))

(***************************************************************************)
(* App: what updateDocument hands to socket.send, and what onmessage makes *)
(* of a frame                                                              *)
(***************************************************************************)
\* JSON.stringify({ type: 'update', data: newContent })
UpdateFrame(newContent) ==
    JSONStringify(<< <<<<"t","y","p","e">>, Str(<<"u","p","d","a","t","e">>)>>, <<<<"d","a","t","a">>, newContent>> >>)

\* a variant that sends without the test of readyState
TransmittedUnchecked(readyState, newContent) == <<UpdateFrame(newContent)>>

\* the frames that updateDocument(newContent) sends on a socket in readyState
Transmitted(readyState, newContent) ==
    IF readyState = "OPEN" THEN <<UpdateFrame(newContent)>> ELSE <<>>

\* a variant that takes the data of a frame of any type
DocumentOnAnyType(current, eventData) ==
    IF Get(JSONParse(Str(eventData)), "type") \in {Undefined, Thrown} THEN current
    ELSE Get(JSONParse(Str(eventData)), "data")

\* a variant that takes the snapshot of init frames only
DocumentOnInit(current, eventData) ==
    LET message == JSONParse(Str(eventData))
    IN  IF Get(message, "type") = Str(<<"i","n","i","t">>) THEN Get(message, "data") ELSE current

\* the document after newSocket.onmessage(event): the try block sets it for the types
\* init and update; a SyntaxError or a TypeError is caught and logged
DocumentOnMessage(current, eventData) ==
    LET message == JSONParse(Str(eventData))
        type == Get(message, "type")
    IN  IF type \in {Str(<<"i","n","i","t">>), Str(<<"u","p","d","a","t","e">>)}
        THEN Get(message, "data")
        ELSE current

\* a variant that tests the length of the selected text only
IsSelectionOfLength(text) == Len(text) > 3

\* the test of handleEditorSelection and of onSelectionUpdate on the selected text
IsSelection(text) == trim(text) # <<>> /\ Len(text) > 3

\* the test of PreviewModal.handleCustomEdit and of its Generate button
PromptSupplied(customPrompt) == trim(customPrompt) # <<>>

\* a variant without the test: custom asks the service at once, like the others
RequestsAlways(editType) == TRUE

\* the test of handleEditWithAI: every edit type but custom asks the service at once
RequestsAtOnce(editType) == editType # "custom"

\* the test of the message list of ChatSidebar for the indicator "Document updated" of
\* the AI message that handleSendMessage makes of aiResponse
ShowsUpdated(aiResponse) == Get(aiResponse, "action") = Str(<<"m","o","d","i","f","y">>)

\* the test of handleSendMessage after the await
AppliesUpdate(aiResponse) ==
    /\ Get(aiResponse, "action") = Str(<<"m","o","d","i","f","y">>)
    /\ Truthy(Get(aiResponse, "newContent"))

(***************************************************************************)
(* Bounds and inputs                                                       *)
(***************************************************************************)
\* the user selects text only in documents of at most this many characters
MaxDocLen == 30

\* the longest text, in pieces, that the text engine is applied to
MaxPieces == 2

\* the longest text over SentenceAlphabet that shorten and table are applied to
MaxSentenceLen == 7

MaxPendingEdits == 2

NoCredentials ==
    [REACT_APP_OPENAI_API_KEY |-> Undefined, REACT_APP_CLAUDE_API_KEY |-> Undefined,
     REACT_APP_GROQ_API_KEY |-> Undefined, REACT_APP_HUGGINGFACE_API_KEY |-> Undefined]

\* what process.env holds for a credential: nothing, the empty string, or a key
CredentialValues == { Undefined, Str(<<>>), Str(<<"s","k","-","1">>) }

AllEnvironments ==
    [ {"REACT_APP_OPENAI_API_KEY", "REACT_APP_CLAUDE_API_KEY",
       "REACT_APP_GROQ_API_KEY", "REACT_APP_HUGGINGFACE_API_KEY"} -> CredentialValues ]

\* one environment for each provider that can be active
ServiceEnvironments ==
    { NoCredentials }
    \cup { [NoCredentials EXCEPT ![k] = Str(<<"s","k","-","1">>)] : k \in DOMAIN NoCredentials }

ToolbarEditTypes ==
    {"shorten", "lengthen", "improve", "formal", "casual", "table", "list", "summarize", "custom"}

\* the nine edit types and one that getTextEdit does not know
AllEditTypes == ToolbarEditTypes \cup {"translate"}

CustomPrompts ==
    { <<>>,
      <<" "," ">>,
      <<"M","a","k","e"," ","i","t"," ","m","o","r","e"," ","p","r","o","f","e","s","s","i","o","n","a","l">>,
      <<"m","o","r","e"," ","f","r","i","e","n","d","l","y">>,
      <<"s","h","o","r","t","e","r">>,
      <<"a","d","d"," ","d","e","t","a","i","l">>,
      <<"p","o","l","i","s","h"," ","i","t">> }

PromptsOf(editType) == IF editType = "custom" THEN CustomPrompts ELSE { <<>> }

ChatMessages ==
    { <<" "," ">>,
      <<"F","i","x"," ","g","r","a","m","m","a","r">>,
      <<"a","d","d"," ","a","n"," ","i","n","t","r","o"," ","t","e","x","t">>,
      <<"a","d","d"," ","a"," ","c","o","n","c","l","u","s","i","o","n"," ","p","a","r","a","g","r","a","p","h">>,
      <<"a","d","d"," ","c","o","n","t","e","n","t">>,
      <<"s","u","m","m","a","r","i","z","e">>,
      <<"f","o","r","m","a","t"," ","i","t">>,
      <<"h","e","l","l","o">> }

\* the documents handed to getChatResponse when it is called on its own
ChatDocuments ==
    { <<>>,
      <<" "," "," ">>,
      <<"i"," ","t","h","i","n","k"," ","t","e","h"," ","c","a","t"," ","i","s"," ","n","i","c","e",".">>,
      <<"N","o","t","e","s","\n","\n","\n","\n","-"," ","o","n","e","\n","*"," ","t","w","o",".","N","e","x","t">> }

EditorTexts ==
    { <<"i"," ","t","h","i","n","k"," ","t","e","h"," ","c","a","t"," ","i","s"," ","n","i","c","e",".">>,
      <<"v","e","r","y"," ","g","o","o","d"," ","t","h","i","n","g","."," ","o","k"," ","g","u","y","s","!"," ","b","y","e">> }

\* what the user of the application types and picks
TypedTexts ==
    { <<"h","i"," ","g","u","y","s">> }

PickedEditTypes == {"formal", "custom"}

TypedPrompts ==
    { <<>>,
      <<" "," ">>,
      <<"m","o","r","e"," ","c","a","s","u","a","l">> }

TypedMessages ==
    { <<" "," ">>,
      <<"F","i","x"," ","g","r","a","m","m","a","r">>,
      <<"h","e","l","l","o">> }

\* the messages among them whose reply can change the document
ModifyingMessages ==
    { <<" "," ">>,
      <<"F","i","x"," ","g","r","a","m","m","a","r">> }

Pieces ==
    { <<"i"," ","t","h","i","n","k"," ","t","e","h"," ","c","a","t"," ","i","s"," ","v","e","r","y"," ","g","o","o","d","."," ">>,
      <<"H","e","y"," ","g","u","y","s",","," ","t","h","i","s"," ","t","h","i","n","g"," ","i","s"," ","a","w","e","s","o","m","e","!"," ">>,
      <<"T","h","e"," ","q","u","i","c","k"," ","b","r","o","w","n"," ","f","o","x"," ","j","u","m","p","s"," ","o","v","e","r"," ","t","h","e"," ","l","a","z","y"," ","d","o","g"," ","w","h","i","l","e"," ","s","e","v","e","n","t","e","e","n"," ","c","u","r","i","o","u","s"," ","c","h","i","l","d","r","e","n"," ","w","a","t","c","h"," ","q","u","i","e","t","l","y"," ","f","r","o","m"," ","b","e","h","i","n","d"," ","t","h","e"," ","g","a","r","d","e","n"," ","f","e","n","c","e"," ","t","o","d","a","y","."," ">>,
      <<"a"," ","l","o","t"," ","o","f"," "," ","t","e","h"," ","t","e","h"," ","s","t","u","f","f"," ",",",","," ","o","k","?","?"," ">>,
      <<"-"," ","i","t","e","m","\n">> }

\* the concatenations of at most n pieces
RECURSIVE PieceTexts(_)
PieceTexts(n) ==
    IF n = 0 THEN { <<>> }
    ELSE PieceTexts(n - 1) \cup { s \o p : s \in PieceTexts(n - 1), p \in Pieces }

TextInputs == PieceTexts(MaxPieces)

SentenceAlphabet == {"a", " ", ".", "!"}

SentenceTexts == UNION { [1 .. n -> SentenceAlphabet] : n \in 0 .. MaxSentenceLen }

\* the frames the server may send: init and update frames, which carry a snapshot,
\* a chat frame, a frame of a type the client does not know, and a text that is no JSON
ServerFrame(kind, data) ==
    [kind |-> kind, data |-> data,
     text |-> JSONStringify(<< <<<<"t","y","p","e">>, Str(kind)>>, <<<<"d","a","t","a">>, Str(data)>> >>)]

Snapshots ==
    { <<"<","p",">","H","e","l","l","o"," ","t","h","e","r","e","<","/","p",">">>,
      <<"S","h","a","r","e","d"," ","t","e","x","t",".">> }

InboundFrames ==
    { ServerFrame(kind, data) : kind \in {<<"i","n","i","t">>, <<"u","p","d","a","t","e">>}, data \in Snapshots }
    \cup { ServerFrame(<<"c","h","a","t">>, <<"h","i">>), ServerFrame(<<"c","u","r","s","o","r">>, <<"x">>),
           [kind |-> <<"g","a","r","b","a","g","e">>, data |-> <<>>, text |-> <<"{","t","y","p","e",":","u","p","d","a","t","e">>] }

NoFrame == [kind |-> <<>>, data |-> <<>>, text |-> <<>>]

\* the text fields a provider may answer with
ContentValues ==
    { Undefined, Null,
      Str(<<"{","\"","a","c","t","i","o","n","\"",":","\"","c","h","a","t","\"",",","\"","m","e","s","s","a","g","e","\"",":","\"","H","e","l","l","o","\"","}">>),
      Str(<<"{","\"","a","c","t","i","o","n","\"",":"," ","\"","m","o","d","i","f","y","\"",","," ","\"","m","e","s","s","a","g","e","\"",":"," ","\"","D","o","n","e","\"",","," ","\"","n","e","w","C","o","n","t","e","n","t","\"",":"," ","\"","N","e","w"," ","t","e","x","t",".","\"","}">>),
      Str(<<"{","\"","a","c","t","i","o","n","\"",":","\"","m","o","d","i","f","y","\"",",","\"","m","e","s","s","a","g","e","\"",":","\"","D","o","n","e","\"","}">>),
      Str(<<"S","u","r","e",","," ","I"," ","c","a","n"," ","h","e","l","p",".">>),
      Str(<<"4","2">>) }

\* the JSON bodies of a provider, in the shape of its API: the body null, a body without
\* the list, an empty list, a list entry without the message, and the text fields
ProviderBodies(provider) ==
    CASE provider \in {"openai", "groq"} ->
            { Null, EmptyObject, Obj([choices |-> Arr(<<>>)]), Obj([choices |-> Arr(<<EmptyObject>>)]),
              Obj([choices |-> Arr(<<Obj([message |-> EmptyObject])>>)]) }
            \cup { Obj([choices |-> Arr(<<Obj([message |-> Obj([content |-> c])])>>)]) :
                       c \in ContentValues \ {Undefined} }
      [] provider = "claude" ->
            { Null, EmptyObject, Obj([content |-> Arr(<<>>)]), Obj([content |-> Arr(<<EmptyObject>>)]) }
            \cup { Obj([content |-> Arr(<<Obj([text |-> c])>>)]) : c \in ContentValues \ {Undefined} }
      [] provider = "huggingface" ->
            { Null, EmptyObject, Arr(<<>>), Arr(<<EmptyObject>>) }
            \cup { Arr(<<Obj([generated_text |-> c])>>) : c \in ContentValues \ {Undefined} }
      [] OTHER -> {}

\* what the two awaits of an adapter end with: fetch rejects, response.json() rejects,
\* or response.json() gives a body
ProviderResponses(provider) ==
    { [kind |-> "networkError"], [kind |-> "decodeError"] }
    \cup { [kind |-> "data", data |-> d] : d \in ProviderBodies(provider) }

NoResponse == [kind |-> "none"]

(***************************************************************************)
(* The state                                                               *)
(***************************************************************************)
VARIABLES
    env,              \* process.env
    aiService,        \* the AIService singleton, Null before its construction
    chatCalls,        \* the getChatResponse calls that have not settled
    editCalls,        \* the getTextEdit calls whose timer has not fired
    requests,         \* the HTTP requests issued to providers so far
    lastChat,         \* the latest getChatResponse call from outside the components
    lastEdit,         \* the latest getTextEdit call from outside the components
    socket,           \* readyState of the WebSocket of App
    sent,             \* the frames that the last step handed to socket.send
    received,         \* the frame that the last step took from the socket
    initReceived,     \* an init frame has been received
    localChange,      \* the local document change of the last step
    document,         \* App state: the content handed to the editor
    documentText,     \* App state: the text handed to the chat sidebar
    editor,           \* the text held by the Tiptap editor
    toolbarVisible, selectedText, selectionRange,
    previewModalOpen, originalText, aiSuggestion, currentEditType, isAiLoading,
    isLoading         \* ChatSidebar state

serviceVars == <<env, aiService>>

callVars == <<chatCalls, editCalls, requests, lastChat, lastEdit>>

stepVars == <<sent, received, localChange>>

toolbarVars == <<toolbarVisible, selectedText, selectionRange>>

modalVars == <<previewModalOpen, originalText, aiSuggestion, currentEditType, isAiLoading>>

appVars ==
    <<socket, initReceived, document, documentText, editor, toolbarVars, modalVars, isLoading>>

vars == <<serviceVars, callVars, stepVars, appVars>>

NoCall == [status |-> "none"]

\* the state of App, ChatSidebar and the editor after the first render and its effect
InitApp ==
    /\ chatCalls = {} /\ editCalls = {} /\ requests = {}
    /\ lastChat = NoCall /\ lastEdit = NoCall
    /\ socket = "CONNECTING"
    /\ sent = <<>> /\ received = NoFrame /\ initReceived = FALSE /\ localChange = "none"
    /\ document = Str(<<>>) /\ documentText = <<>> /\ editor = <<>>
    /\ toolbarVisible = FALSE /\ selectedText = <<>> /\ selectionRange = Null
    /\ previewModalOpen = FALSE /\ originalText = <<>> /\ aiSuggestion = <<>>
    /\ currentEditType = "" /\ isAiLoading = FALSE
    /\ isLoading = FALSE

\* the step sends nothing, receives nothing and changes no document
Quiet == sent' = <<>> /\ received' = NoFrame /\ localChange' = "none"

(***************************************************************************)
(* AIService                                                               *)
(***************************************************************************)
\* the module creates the singleton: new AIService()
Construct ==
    /\ aiService = Null
    /\ aiService' = NewAIService(env)
    /\ UNCHANGED <<env, callVars, stepVars, appVars>>

\* a variant that gives up a provider after its first failure: the call that follows a
\* failed one goes to the simulation
getChatResponseDemoting(message, documentContent, awaiter) ==
    LET provider == IF lastChat # NoCall /\ lastChat.fallback THEN "simulation"
                    ELSE aiService.currentProvider
        call == [message |-> message, document |-> documentContent, provider |-> provider,
                 phase |-> IF provider = "simulation" THEN "timer" ELSE "fetch",
                 fallback |-> FALSE, awaiter |-> awaiter]
    IN  /\ chatCalls' = chatCalls \cup {call}
        /\ requests' = IF provider = "simulation" THEN requests
                       ELSE requests \cup {[provider |-> provider, type |-> "chat"]}
        /\ lastChat' = IF awaiter # "caller" THEN lastChat
                       ELSE [message |-> message, document |-> documentContent,
                             provider |-> provider, response |-> NoResponse,
                             fallback |-> FALSE, status |-> "pending", value |-> Undefined]

\* getChatResponse(message, documentContent) up to its first await: callAI starts the
\* simulation timer, or builds the chat prompt and issues the request of the provider
getChatResponse(message, documentContent, awaiter) ==
    LET provider == aiService.currentProvider
        call == [message |-> message, document |-> documentContent, provider |-> provider,
                 phase |-> IF provider = "simulation" THEN "timer" ELSE "fetch",
                 fallback |-> FALSE, awaiter |-> awaiter]
    IN  /\ chatCalls' = chatCalls \cup {call}
        /\ requests' = IF provider = "simulation" THEN requests
                       ELSE requests \cup {[provider |-> provider, type |-> "chat"]}
        /\ lastChat' = IF awaiter # "caller" THEN lastChat
                       ELSE [message |-> message, document |-> documentContent,
                             provider |-> provider, response |-> NoResponse,
                             fallback |-> FALSE, status |-> "pending", value |-> Undefined]

\* getTextEdit(editType, selectedText, customPrompt) up to its timer; it issues no request
\* (the model lets MaxPendingEdits timers run at a time; timer tells apart the pending
\* calls: it is the first timer of the model that is not running)
StartTextEdit(editType, text, customPrompt, awaiter) ==
    LET call == [editType |-> editType, selectedText |-> text, customPrompt |-> customPrompt,
                 awaiter |-> awaiter,
                 timer |-> SetMin((1 .. MaxPendingEdits) \ { c.timer : c \in editCalls })]
    IN  /\ Cardinality(editCalls) < MaxPendingEdits
        /\ editCalls' = editCalls \cup {call}
        /\ lastEdit' = IF awaiter # "caller" THEN lastEdit
                       ELSE [editType |-> editType, selectedText |-> text,
                             customPrompt |-> customPrompt,
                             provider |-> aiService.currentProvider,
                             status |-> "pending", value |-> Undefined]

(***************************************************************************)
(* App, ChatSidebar, PreviewModal                                          *)
(***************************************************************************)
\* hideFloatingToolbar()
HideToolbar == toolbarVisible' = FALSE /\ selectedText' = <<>> /\ selectionRange' = Null

\* updateDocument(newContent), called for the local change kind
updateDocument(newContent, kind) ==
    /\ document' = newContent
    /\ sent' = Transmitted(socket, newContent)
    /\ received' = NoFrame
    /\ localChange' = kind

\* the effect of TiptapEditor on its content prop, which runs when the prop has
\* changed: a content that differs from editor.getHTML() is set without an update
\* event; the selection collapses, for which onSelectionUpdate reports no selection
ContentEffect(content) ==
    IF content # document /\ content # Str(getHTML(editor))
    THEN editor' = setContent(content) /\ HideToolbar
    ELSE UNCHANGED <<editor, toolbarVars>>

\* what runs when the promise of a getChatResponse call resolves with aiResponse: the
\* rest of ChatSidebar.handleSendMessage (reading a property of null or undefined
\* throws into its catch block), or nothing for a call from outside the components
ChatContinuation(awaiter, aiResponse) ==
    IF awaiter = "handleSendMessage"
    THEN /\ isLoading' = FALSE
         /\ IF aiResponse.t \notin {"null", "undefined"} /\ AppliesUpdate(aiResponse)
            THEN /\ updateDocument(Get(aiResponse, "newContent"), "chat")
                 /\ ContentEffect(Get(aiResponse, "newContent"))
            ELSE Quiet /\ UNCHANGED <<document, editor, toolbarVars>>
         /\ UNCHANGED <<socket, initReceived, documentText, modalVars>>
    ELSE Quiet /\ UNCHANGED appVars

\* the two awaits of the adapter of a call end with response: the adapter returns a
\* value, which resolves getChatResponse, or it throws and the catch block of
\* getChatResponse starts simulateAIResponse
ProviderRespond(call, response) ==
    LET outcome == IF response.kind = "data" THEN callProvider(call.provider, response.data)
                   ELSE Thrown
    IN  /\ call \in chatCalls
        /\ call.phase = "fetch"
        /\ IF outcome = Thrown
           THEN /\ chatCalls' = (chatCalls \ {call})
                                \cup {[call EXCEPT !.phase = "timer", !.fallback = TRUE]}
                /\ lastChat' = IF call.awaiter = "caller"
                               THEN [lastChat EXCEPT !.response = response, !.fallback = TRUE]
                               ELSE lastChat
                /\ Quiet
                /\ UNCHANGED appVars
           ELSE /\ chatCalls' = chatCalls \ {call}
                /\ lastChat' = IF call.awaiter = "caller"
                               THEN [lastChat EXCEPT !.response = response,
                                                     !.status = "resolved", !.value = outcome]
                               ELSE lastChat
                /\ ChatContinuation(call.awaiter, outcome)
        /\ UNCHANGED <<serviceVars, editCalls, requests, lastEdit>>

\* the draws of Math.random() that tell apart the results, given the result of draw 0:
\* only the last branch of simulateAIResponse, a chat turn of responses, reads the draw
DrawsAfter(first) ==
    IF first \in { ChatTurn(responses[k]) : k \in DOMAIN responses }
    THEN 0 .. (Len(responses) - 1)
    ELSE {0}

\* what simulateAIResponse can resolve with, over the draws of Math.random()
SimulatedResponses(userMessage, currentDocument) ==
    { simulateAIResponse(userMessage, currentDocument, random) :
        random \in DrawsAfter(simulateAIResponse(userMessage, currentDocument, 0)) }

\* the timer of simulateAIResponse fires and the promise resolves with aiResponse
ChatTimerFire(call, aiResponse) ==
        /\ call \in chatCalls
        /\ call.phase = "timer"
        /\ chatCalls' = chatCalls \ {call}
        /\ lastChat' = IF call.awaiter = "caller"
                       THEN [lastChat EXCEPT !.status = "resolved", !.value = aiResponse]
                       ELSE lastChat
        /\ ChatContinuation(call.awaiter, aiResponse)
        /\ UNCHANGED <<serviceVars, editCalls, requests, lastEdit>>

\* the timer of getTextEdit fires; when the promise resolves, the rest of
\* handleEditWithAI or of App.handleCustomEdit runs
EditTimerFire(call) ==
    /\ call \in editCalls
    /\ \E outcome \in {getTextEdit(call.editType, call.selectedText, call.customPrompt)} :
          /\ editCalls' = editCalls \ {call}
          /\ lastEdit' = IF call.awaiter # "caller" THEN lastEdit
                         ELSE IF outcome.status = "resolved"
                         THEN [lastEdit EXCEPT !.status = "resolved", !.value = outcome.value]
                         ELSE [lastEdit EXCEPT !.status = "threw"]
          /\ IF outcome.status = "resolved" /\ call.awaiter = "handleEditWithAI"
             THEN /\ aiSuggestion' = outcome.value.editedText.v
                  /\ isAiLoading' = FALSE
                  /\ toolbarVisible' = FALSE
                  /\ UNCHANGED <<selectedText, selectionRange, previewModalOpen, originalText,
                                 currentEditType>>
             ELSE IF outcome.status = "resolved" /\ call.awaiter = "handleCustomEdit"
             THEN /\ aiSuggestion' = outcome.value.editedText.v
                  /\ isAiLoading' = FALSE
                  /\ UNCHANGED <<toolbarVars, previewModalOpen, originalText, currentEditType>>
             ELSE UNCHANGED <<toolbarVars, modalVars>>
    /\ Quiet
    /\ UNCHANGED <<serviceVars, chatCalls, requests, lastChat>>
    /\ UNCHANGED <<socket, initReceived, document, documentText, editor, isLoading>>

\* newSocket.onopen
onopen ==
    /\ socket = "CONNECTING"
    /\ socket' = "OPEN"
    /\ Quiet
    /\ UNCHANGED <<serviceVars, callVars, initReceived, document, documentText, editor,
                   toolbarVars, modalVars, isLoading>>

\* a variant in which a closed connection is replaced by a new one
oncloseReconnecting ==
    /\ socket \in {"CONNECTING", "OPEN"}
    /\ socket' = "CONNECTING"
    /\ Quiet
    /\ UNCHANGED <<serviceVars, callVars, initReceived, document, documentText, editor,
                   toolbarVars, modalVars, isLoading>>

\* newSocket.onclose, after a close or an error of the connection
onclose ==
    /\ socket \in {"CONNECTING", "OPEN"}
    /\ socket' = "CLOSED"
    /\ Quiet
    /\ UNCHANGED <<serviceVars, callVars, initReceived, document, documentText, editor,
                   toolbarVars, modalVars, isLoading>>

\* a variant in which the content effect sets the content with an update event, which
\* handleEditorChange answers with updateDocument
onmessageEmitting(frame) ==
    /\ socket = "OPEN"
    /\ ContentEffect(DocumentOnMessage(document, frame.text))
    /\ IF editor' # editor
       THEN /\ document' = Str(getHTML(editor'))
            /\ documentText' = editor'
            /\ sent' = Transmitted(socket, document')
       ELSE /\ document' = DocumentOnMessage(document, frame.text)
            /\ documentText' = documentText
            /\ sent' = <<>>
    /\ received' = frame
    /\ initReceived' = (initReceived \/ frame.kind = <<"i","n","i","t">>)
    /\ localChange' = "none"
    /\ UNCHANGED <<serviceVars, callVars, socket, modalVars, isLoading>>

\* newSocket.onmessage(event) for a frame of the server, then the content effect
onmessage(frame) ==
    LET content == DocumentOnMessage(document, frame.text)
    IN  /\ socket = "OPEN"
        /\ document' = content
        /\ ContentEffect(content)
        /\ sent' = <<>>
        /\ received' = frame
        /\ initReceived' = (initReceived \/ frame.kind = <<"i","n","i","t">>)
        /\ localChange' = "none"
        /\ UNCHANGED <<serviceVars, callVars, socket, documentText, modalVars, isLoading>>

\* the user replaces the text of the editor by typing: the selection collapses
\* (onSelectionUpdate reports none), then onUpdate calls handleEditorChange(html, text)
onUpdate(text) ==
    /\ text # editor
    /\ editor' = text
    /\ HideToolbar
    /\ documentText' = text
    /\ updateDocument(Str(getHTML(text)), "editor")
    /\ UNCHANGED <<serviceVars, callVars, socket, initReceived, modalVars, isLoading>>

\* the user selects from .. to in the editor: onSelectionUpdate, handleEditorSelection
onSelectionUpdate(from, to) ==
    LET text == textBetween(editor, from, to)
    IN  /\ Len(editor) <= MaxDocLen
        /\ IF IsSelection(text)
           THEN /\ selectedText' = text
                /\ selectionRange' = [from |-> from, to |-> to]
                /\ toolbarVisible' = TRUE
           ELSE HideToolbar
        /\ Quiet
        /\ UNCHANGED <<serviceVars, callVars, socket, initReceived, document, documentText,
                       editor, modalVars, isLoading>>

\* a click outside the toolbar or on its close button: hideFloatingToolbar()
hideFloatingToolbar ==
    /\ toolbarVisible
    /\ HideToolbar
    /\ Quiet
    /\ UNCHANGED <<serviceVars, callVars, socket, initReceived, document, documentText,
                   editor, modalVars, isLoading>>

\* a click on a toolbar button: handleEditWithAI(editType, selectedText) up to its await
handleEditWithAI(editType) ==
    /\ toolbarVisible
    /\ currentEditType' = editType
    /\ originalText' = selectedText
    /\ aiSuggestion' = <<>>
    /\ previewModalOpen' = TRUE
    /\ IF RequestsAtOnce(editType)
       THEN /\ isAiLoading' = TRUE
            /\ StartTextEdit(editType, selectedText, <<>>, "handleEditWithAI")
            /\ UNCHANGED toolbarVisible
       ELSE /\ toolbarVisible' = FALSE
            /\ UNCHANGED <<isAiLoading, editCalls, lastEdit>>
    /\ Quiet
    /\ UNCHANGED <<serviceVars, chatCalls, requests, lastChat, socket, initReceived, document,
                   documentText, editor, selectedText, selectionRange, isLoading>>

\* a click on Generate with customPrompt in the input: PreviewModal.handleCustomEdit,
\* App.handleCustomEdit(customPrompt) up to its await
handleCustomEdit(customPrompt) ==
    /\ previewModalOpen
    /\ currentEditType = "custom"
    /\ ~isAiLoading
    /\ PromptSupplied(customPrompt)
    /\ isAiLoading' = TRUE
    /\ StartTextEdit("custom", originalText, customPrompt, "handleCustomEdit")
    /\ Quiet
    /\ UNCHANGED <<serviceVars, chatCalls, requests, lastChat, socket, initReceived, document,
                   documentText, editor, toolbarVars, previewModalOpen, originalText,
                   aiSuggestion, currentEditType, isLoading>>

\* a click on Replace Original: handleConfirmEdit(); replaceRange collapses the
\* selection (onSelectionUpdate reports none) and changes the text (onUpdate calls
\* handleEditorChange)
handleConfirmEdit ==
    LET text == replaceRange(editor, selectionRange.from, selectionRange.to, aiSuggestion)
    IN  /\ previewModalOpen
        /\ aiSuggestion # <<>>
        /\ ~isAiLoading
        /\ IF selectionRange # Null
           THEN /\ editor' = text
                /\ documentText' = text
                /\ updateDocument(Str(getHTML(text)), "confirm")
                /\ toolbarVisible' = FALSE
                /\ selectedText' = <<>>
           ELSE /\ Quiet
                /\ UNCHANGED <<editor, documentText, document, toolbarVisible, selectedText>>
        /\ previewModalOpen' = FALSE
        /\ aiSuggestion' = <<>>
        /\ originalText' = <<>>
        /\ selectionRange' = Null
        /\ UNCHANGED <<serviceVars, callVars, socket, initReceived, currentEditType,
                       isAiLoading, isLoading>>

\* a variant that also cancels the pending getTextEdit calls
handleCancelEditAborting ==
    /\ previewModalOpen
    /\ previewModalOpen' = FALSE
    /\ aiSuggestion' = <<>>
    /\ originalText' = <<>>
    /\ isAiLoading' = FALSE
    /\ editCalls' = {}
    /\ Quiet
    /\ UNCHANGED <<serviceVars, chatCalls, requests, lastChat, lastEdit, socket, initReceived,
                   document, documentText, editor, toolbarVars, currentEditType, isLoading>>

\* a click on Cancel or on the close button of the modal: handleCancelEdit()
handleCancelEdit ==
    /\ previewModalOpen
    /\ previewModalOpen' = FALSE
    /\ aiSuggestion' = <<>>
    /\ originalText' = <<>>
    /\ isAiLoading' = FALSE
    /\ Quiet
    /\ UNCHANGED <<serviceVars, callVars, socket, initReceived, document, documentText,
                   editor, toolbarVars, currentEditType, isLoading>>

\* the chat form is submitted with inputMessage: handleSendMessage up to its await
handleSendMessage(inputMessage) ==
    /\ ~isLoading
    /\ trim(inputMessage) # <<>>
    /\ isLoading' = TRUE
    /\ getChatResponse(inputMessage, documentText, "handleSendMessage")
    /\ Quiet
    /\ UNCHANGED <<serviceVars, editCalls, lastEdit, socket, initReceived, document,
                   documentText, editor, toolbarVars, modalVars>>

(***************************************************************************)
(* Calls of the service from outside the components                        *)
(***************************************************************************)
CallGetChatResponse(message, documentContent) ==
    /\ getChatResponse(message, documentContent, "caller")
    /\ lastEdit' = NoCall
    /\ UNCHANGED <<serviceVars, editCalls, stepVars, appVars>>

CallGetTextEdit(editType, text, customPrompt) ==
    /\ StartTextEdit(editType, text, customPrompt, "caller")
    /\ lastChat' = NoCall
    /\ UNCHANGED <<serviceVars, chatCalls, requests, stepVars, appVars>>

\* no call has been made in this run
Fresh == lastEdit = NoCall /\ lastChat = NoCall

\* no call is pending
Idle == chatCalls = {} /\ editCalls = {}

(***************************************************************************)
(* Specifications                                                          *)
(***************************************************************************)
\* the application in the browser, without credentials: the three sources of local
\* document changes and the connection
Init ==
    /\ env = NoCredentials
    /\ aiService = NewAIService(env)
    /\ InitApp

Next ==
    \/ onopen
    \/ onclose
    \/ \E text \in TypedTexts : onUpdate(text)
    \/ \E to \in {1, Len(editor) + 1} : onSelectionUpdate(1, to)
    \/ handleEditWithAI("formal")
    \/ handleConfirmEdit
    \/ handleCancelEdit
    \/ \E inputMessage \in ModifyingMessages : handleSendMessage(inputMessage)
    \/ \E call \in chatCalls :
          \E aiResponse \in SimulatedResponses(call.message, call.document) :
             ChatTimerFire(call, aiResponse)
    \/ \E call \in editCalls : EditTimerFire(call)

Spec == Init /\ [][Next]_vars

\* the socket of App and the editor
NextSync ==
    \/ onopen
    \/ onclose
    \/ \E frame \in InboundFrames : onmessage(frame)
    \/ \E text \in TypedTexts : onUpdate(text)
    \/ \E to \in {1, Len(editor) + 1} : onSelectionUpdate(1, to)
    \/ hideFloatingToolbar
    \/ \E inputMessage \in TypedMessages : handleSendMessage(inputMessage)
    \/ \E call \in chatCalls :
          \E aiResponse \in SimulatedResponses(call.message, call.document) :
             ChatTimerFire(call, aiResponse)

SpecSync == Init /\ [][NextSync]_vars

\* the floating toolbar and the preview modal
NextEdit ==
    \/ \E text \in TypedTexts : onUpdate(text)
    \/ \E to \in {1, Len(editor) + 1} : onSelectionUpdate(1, to)
    \/ hideFloatingToolbar
    \/ \E editType \in PickedEditTypes : handleEditWithAI(editType)
    \/ \E customPrompt \in TypedPrompts : handleCustomEdit(customPrompt)
    \/ handleConfirmEdit
    \/ handleCancelEdit
    \/ \E call \in editCalls : EditTimerFire(call)

SpecEdit == Init /\ [][NextEdit]_vars

\* the construction of the service in every environment
InitSelect ==
    /\ env \in AllEnvironments
    /\ aiService = Null
    /\ InitApp

NextSelect == Construct

SpecSelect == InitSelect /\ [][NextSelect]_vars

\* the service on its own, with each provider active, called once at a time
InitService ==
    /\ env \in ServiceEnvironments
    /\ aiService = NewAIService(env)
    /\ InitApp

NextService ==
    \/ /\ Idle
       /\ \E message \in ChatMessages, documentContent \in ChatDocuments :
             CallGetChatResponse(message, documentContent)
    \/ /\ Idle
       /\ \E editType \in AllEditTypes, text \in EditorTexts :
             \E customPrompt \in PromptsOf(editType) :
                CallGetTextEdit(editType, text, customPrompt)
    \/ \E call \in chatCalls : \E response \in ProviderResponses(call.provider) :
          ProviderRespond(call, response)
    \/ \E call \in chatCalls :
          \E aiResponse \in SimulatedResponses(call.message, call.document) :
             ChatTimerFire(call, aiResponse)
    \/ \E call \in editCalls : EditTimerFire(call)

SpecService == InitService /\ [][NextService]_vars

\* the text engine behind getTextEdit, applied to composed texts
NextText ==
    \/ /\ Fresh
       /\ \E editType \in AllEditTypes, text \in TextInputs :
             \E customPrompt \in PromptsOf(editType) :
                CallGetTextEdit(editType, text, customPrompt)
    \/ \E call \in editCalls : EditTimerFire(call)

SpecText == Init /\ [][NextText]_vars

\* shorten and table, applied to every short text over the sentence alphabet
NextSentences ==
    \/ /\ Fresh
       /\ \E editType \in {"shorten", "table"}, text \in SentenceTexts :
             CallGetTextEdit(editType, text, <<>>)
    \/ \E call \in editCalls : EditTimerFire(call)

SpecSentences == Init /\ [][NextSentences]_vars

(***************************************************************************)
(* Properties                                                              *)
(***************************************************************************)
\* o.k and a[i] where a missing step of the path gives undefined instead of throwing
FieldOf(o, k) == IF o.t = "object" THEN Get(o, k) ELSE Undefined

EntryOf(a, i) == IF a.t = "array" THEN At(a, i) ELSE Undefined

\* the content field that the adapter of provider expects in the body data
ExpectedContent(provider, data) ==
    CASE provider \in {"openai", "groq"} ->
            FieldOf(FieldOf(EntryOf(FieldOf(data, "choices"), 0), "message"), "content")
      [] provider = "claude" -> FieldOf(EntryOf(FieldOf(data, "content"), 0), "text")
      [] OTHER -> FieldOf(EntryOf(data, 0), "generated_text")

\* the provider failures: the transport call fails, the response cannot be decoded,
\* the response lacks the expected content field
ProviderFailed(call) ==
    \/ call.response.kind \in {"networkError", "decodeError"}
    \/ /\ call.response.kind = "data"
       /\ ExpectedContent(call.provider, call.response.data) = Undefined

\* C1: getChatResponse and getTextEdit never reject, and a getChatResponse call whose
\* provider failed (transport failure, undecodable response, response without the
\* content field) resolves with the simulation result for its message and document.
C1_FallbackOnProviderFailure ==
    /\ lastChat.status \in {"none", "pending", "resolved"}
    /\ lastEdit.status \in {"none", "pending", "resolved"}
    /\ (lastChat.status = "resolved" /\ ProviderFailed(lastChat))
          => lastChat.value \in SimulatedResponses(lastChat.message, lastChat.document)

\* a credential is present when process.env holds a non-empty string for it
Present(name) == env[name].t = "string" /\ env[name].v # <<>>

PriorityOrder ==
    << <<"openai", "REACT_APP_OPENAI_API_KEY">>, <<"claude", "REACT_APP_CLAUDE_API_KEY">>,
       <<"groq", "REACT_APP_GROQ_API_KEY">>, <<"huggingface", "REACT_APP_HUGGINGFACE_API_KEY">> >>

\* C2: after construction the active provider is non-null and is the earliest entry of
\* openai, claude, groq, huggingface whose credential is present, and it is simulation
\* exactly when no credential is present.
C2_EarliestPresentProvider ==
    aiService # Null =>
        LET present == { i \in DOMAIN PriorityOrder : Present(PriorityOrder[i][2]) }
        IN  /\ aiService.currentProvider \in
                  {"openai", "claude", "groq", "huggingface", "simulation"}
            /\ present # {} => aiService.currentProvider = PriorityOrder[SetMin(present)][1]
            /\ aiService.currentProvider = "simulation" <=> present = {}

\* the service was constructed with the openai credential empty, the claude credential
\* absent and the two others present: it chose groq
C2_Witness ==
    /\ aiService # Null
    /\ env.REACT_APP_OPENAI_API_KEY = Str(<<>>)
    /\ env.REACT_APP_CLAUDE_API_KEY = Undefined
    /\ Present("REACT_APP_GROQ_API_KEY")
    /\ Present("REACT_APP_HUGGINGFACE_API_KEY")
    /\ aiService.currentProvider = "groq"

SyncKinds == { <<"i","n","i","t">>, <<"u","p","d","a","t","e">> }

\* C3: a step that receives an init or update frame leaves the document equal to the
\* data of that frame, whatever the document was and whether or not an init frame came
\* before; a step that receives any other frame leaves the document as it was.  So the
\* document is the data of the latest init or update frame until a local change.
C3_LastSnapshotWins ==
    [][ /\ received'.kind \in SyncKinds => document' = Str(received'.data)
        /\ (received' # NoFrame /\ received'.kind \notin SyncKinds) => document' = document
      ]_vars

\* an update frame was received before any init frame and replaced a document that the
\* user had typed
C3_Witness ==
    /\ received.kind = <<"u","p","d","a","t","e">>
    /\ ~initReceived
    /\ documentText # <<>>
    /\ document = Str(received.data)
    /\ editor = HTMLText(Str(received.data))

\* the one frame {type: 'update', data: content}
IsUpdateOf(frames, content) ==
    /\ Len(frames) = 1
    /\ JSONParse(Str(frames[1])) = Obj([type |-> Str(<<"u","p","d","a","t","e">>), data |-> content])

\* C4: a step that changes the document locally (editor edit, confirmed AI edit, chat
\* modification) sends exactly one update frame with the whole new document when the
\* socket is open and sends nothing when it is not; no other step sends anything, so a
\* dropped update is never sent later.
C4_OneUpdateIffOpen ==
    /\ localChange # "none" =>
          IF socket = "OPEN" THEN IsUpdateOf(sent, document) ELSE sent = <<>>
    /\ localChange \in {"editor", "confirm"} => document = Str(getHTML(editor))
    /\ localChange = "none" => sent = <<>>

\* a confirmed AI edit changed the document while the socket was open
C4_Witness ==
    /\ localChange = "confirm"
    /\ socket = "OPEN"
    /\ IsUpdateOf(sent, document)
    /\ documentText # <<"h","i"," ","g","u","y","s">>

\* a chat modification changed the document after the socket had closed
C4_WitnessDropped ==
    /\ localChange = "chat"
    /\ socket = "CLOSED"
    /\ sent = <<>>
    /\ document # Str(getHTML(documentText))

\* C5: with a network provider active, getTextEdit first hands the edit to the call of
\* that provider: when it has resolved, a request of type edit went to the provider.
C5_EditDelegatedToProvider ==
    (lastEdit.status = "resolved" /\ lastEdit.provider # "simulation")
        => \E request \in requests :
              request.provider = lastEdit.provider /\ request.type = "edit"

\* ChatTurn: action is chat or modify, message is a string, newContent is a string
\* that is there if and only if action is modify
WellFormedChatTurn(x) ==
    /\ x.t = "object"
    /\ Get(x, "action") \in {Str(<<"c","h","a","t">>), Str(<<"m","o","d","i","f","y">>)}
    /\ IsString(Get(x, "message"))
    /\ Get(x, "newContent") # Undefined <=> Get(x, "action") = Str(<<"m","o","d","i","f","y">>)
    /\ Get(x, "newContent") # Undefined => IsString(Get(x, "newContent"))

\* C6: every value that getChatResponse resolves to is a well-formed ChatTurn.
C6_ResolvesToChatTurn ==
    lastChat.status = "resolved" => WellFormedChatTurn(lastChat.value)

C8_TransformTotal ==
    /\ lastEdit.status # "threw"
    /\ lastEdit.status = "resolved" => IsString(lastEdit.value.editedText)

\* getTextEdit resolved for an edit type it does not know
C8_Witness ==
    /\ lastEdit.status = "resolved"
    /\ lastEdit.editType \notin ToolbarEditTypes
    /\ lastEdit.selectedText # <<>>
    /\ lastEdit.value.editedText # Str(lastEdit.selectedText)

\* the sentences of a text, trimmed
TrimmedSentences(text) ==
    LET sentences == sentencesOf(text)
    IN  [ i \in DOMAIN sentences |-> trim(sentences[i]) ]

\* the least k with k >= 0.7 * n
CeilOf70Percent(n) == CHOOSE k \in 0 .. n : 10 * k >= 7 * n /\ 10 * (k - 1) < 7 * n

\* C9: shorten returns a text of at most one sentence unchanged, and of a text of
\* N > 1 sentences exactly the first ceil(0.7 * N) sentences, in their order.
C9_ShortenKeepsSeventyPercent ==
    (lastEdit.status = "resolved" /\ lastEdit.editType = "shorten") =>
        LET given == TrimmedSentences(lastEdit.selectedText)
            N == Len(given)
            edited == lastEdit.value.editedText
        IN  /\ IsString(edited)
            /\ IF N <= 1 THEN edited.v = lastEdit.selectedText
               ELSE TrimmedSentences(edited.v) = SubSeq(given, 1, CeilOf70Percent(N))

\* shorten was applied to four sentences and kept three
C9_Witness ==
    /\ lastEdit.status = "resolved"
    /\ lastEdit.editType = "shorten"
    /\ Len(sentencesOf(lastEdit.selectedText)) = 4
    /\ Len(sentencesOf(lastEdit.value.editedText.v)) = 3

\* the lines of a text that ends with a line break
LinesOf(text) ==
    LET breaks == { i \in DOMAIN text : text[i] = "\n" }
        nth(j) == CHOOSE p \in breaks : Cardinality({ r \in breaks : r < p }) = j - 1
    IN  [ j \in 1 .. Cardinality(breaks) |->
            SubSeq(text, IF j = 1 THEN 1 ELSE nth(j - 1) + 1, nth(j) - 1) ]

\* the row | i | sentence |
TableRow(i, sentence) ==
    <<"|", " ">> \o NumberToString(i) \o <<" ", "|", " ">> \o sentence \o <<" ", "|">>

\* C10: table returns a text of fewer than 2 sentences unchanged, and for a text of
\* N >= 2 sentences 2 header rows followed by N data rows, of which row i holds i
\* and the i-th sentence.
C10_TableRows ==
    (lastEdit.status = "resolved" /\ lastEdit.editType = "table") =>
        LET given == TrimmedSentences(lastEdit.selectedText)
            N == Len(given)
            edited == lastEdit.value.editedText
        IN  /\ IsString(edited)
            /\ IF N < 2 THEN edited.v = lastEdit.selectedText
               ELSE LET lines == LinesOf(edited.v)
                    IN  /\ edited.v[Len(edited.v)] = "\n"
                        /\ Len(lines) = 2 + N
                        /\ lines[1] = <<"|"," ","I","t","e","m"," ","|"," ","D","e","s","c","r","i","p","t","i","o","n"," ","|">>
                        /\ lines[2] = <<"|","-","-","-","-","-","-","|","-","-","-","-","-","-","-","-","-","-","-","-","-","|">>
                        /\ \A i \in 1 .. N : lines[2 + i] = TableRow(i, given[i])

\* table was applied to three sentences
C10_Witness ==
    /\ lastEdit.status = "resolved"
    /\ lastEdit.editType = "table"
    /\ Len(sentencesOf(lastEdit.selectedText)) = 3
    /\ Len(LinesOf(lastEdit.value.editedText.v)) = 5
(***************************************************************************)
(* The tone transforms applied in chains: a caller hands the edited text   *)
(* of one getTextEdit call to the next                                     *)
(***************************************************************************)
TonePhrases ==
    { <<"I"," ","c","a","n","'","t"," ">>, <<"i","t"," ","W","O","N","'","T"," ">>, <<"M","a","y","b","e"," ","o","k","a","y"," ">>, <<"k","i","n","d"," ","o","f"," ","g","u","y","s"," ">>,
      <<"I","t"," ","i","s"," ","m","y"," ","o","p","i","n","i","o","n"," ","t","h","a","t"," ">>, <<"i","s"," ","n","o","t"," ","a","c","c","e","p","t","a","b","l","e"," ">>, <<"P","E","R","H","A","P","S"," ","s","o","m","e","w","h","a","t"," ">>,
      <<"i","n","d","i","v","i","d","u","a","l","s"," ","c","a","n","n","o","t"," ">>, <<"s","h","e"," ","d","o","e","s","n","'","t"," ">>, <<"i"," ","t","h","i","n","k"," ","i","t"," ","w","i","l","l"," ","n","o","t"," ">> }

\* the texts of at most two phrases
ToneTexts == { a \o b : a \in TonePhrases \cup {<<>>}, b \in TonePhrases \cup {<<>>} }

ToneEditTypes == {"formal", "casual"}

NextTone ==
    \/ /\ Fresh
       /\ \E editType \in ToneEditTypes, text \in ToneTexts : CallGetTextEdit(editType, text, <<>>)
    \/ /\ lastEdit.status = "resolved"
       /\ \E editType \in ToneEditTypes :
             CallGetTextEdit(editType, lastEdit.value.editedText.v, <<>>)
    \/ \E call \in editCalls : EditTimerFire(call)

SpecTone == Init /\ [][NextTone]_vars

\* C11: formal and casual are idempotent after one application: for every text x,
\* formal(formal(casual(x))) = formal(casual(x)) and casual(casual(formal(x))) =
\* casual(formal(x)), and when getTextEdit has applied formal (or casual) to a text,
\* applying it to the edited text again changes nothing
C11_ToneIdempotent ==
    (lastEdit.status = "resolved" /\ lastEdit.editType \in ToneEditTypes) =>
        /\ \A edited \in {lastEdit.value.editedText} :
              EditedText(lastEdit.editType, edited.v, <<>>) = edited
        /\ \A casual \in {makeCasual(lastEdit.selectedText)} :
              \A formal \in {makeFormal(casual.v)} : makeFormal(formal.v) = formal
        /\ \A formal \in {makeFormal(lastEdit.selectedText)} :
              \A casual \in {makeCasual(formal.v)} : makeCasual(casual.v) = casual

\* formal was applied to a text that casual had made of another, and changed it
C11_Witness ==
    /\ lastEdit.status = "resolved"
    /\ lastEdit.editType = "formal"
    /\ lastEdit.value.editedText.v # lastEdit.selectedText
    /\ \E x \in ToneTexts : makeCasual(x).v = lastEdit.selectedText /\ x # lastEdit.selectedText

(***************************************************************************)
(* The application with a provider and the simulation behind it, under the *)
(* scheduling of the browser: a timer that was set fires, and a fetch that *)
(* was issued settles (the server answers or the connection fails)         *)
(***************************************************************************)
LiveEnvironment == [NoCredentials EXCEPT !["REACT_APP_OPENAI_API_KEY"] = Str(<<"s","k","-","1">>)]

\* the provider is down, or it answers with a chat turn
LiveResponses ==
    { [kind |-> "networkError"],
      [kind |-> "data",
       data |-> Obj([choices |-> Arr(<<Obj([message |-> Obj([content |->
                    Str(<<"{","\"","a","c","t","i","o","n","\"",":","\"","c","h","a","t","\"",",","\"","m","e","s","s","a","g","e","\"",":","\"","H","e","l","l","o","\"","}">>)])])>>)])] }

\* a message that asks for no change of the document
LiveMessages == { <<"h","e","l","l","o">> }

\* the texts that the user can select
LiveSelections == TypedTexts

\* the getTextEdit calls that the toolbar and the modal can issue
LiveEditCalls ==
    { [editType |-> "formal", selectedText |-> text, customPrompt |-> <<>>,
       awaiter |-> "handleEditWithAI", timer |-> timer] :
          text \in LiveSelections, timer \in 1 .. MaxPendingEdits }
    \cup { [editType |-> "custom", selectedText |-> text, customPrompt |-> customPrompt,
            awaiter |-> "handleCustomEdit", timer |-> timer] :
          text \in LiveSelections, customPrompt \in { p \in TypedPrompts : PromptSupplied(p) },
          timer \in 1 .. MaxPendingEdits }

InitLive ==
    /\ env = LiveEnvironment
    /\ aiService = NewAIService(env)
    /\ InitApp

NextLive ==
    \/ \E text \in TypedTexts : onUpdate(text)
    \/ \E to \in {1, Len(editor) + 1} : onSelectionUpdate(1, to)
    \/ \E editType \in PickedEditTypes : handleEditWithAI(editType)
    \/ \E customPrompt \in TypedPrompts : handleCustomEdit(customPrompt)
    \/ handleCancelEdit
    \/ \E inputMessage \in LiveMessages : handleSendMessage(inputMessage)
    \/ \E call \in chatCalls : \E response \in LiveResponses : ProviderRespond(call, response)
    \/ \E call \in chatCalls :
          \E aiResponse \in SimulatedResponses(call.message, call.document) :
             ChatTimerFire(call, aiResponse)
    \/ \E call \in editCalls : EditTimerFire(call)

SpecLive ==
    /\ InitLive
    /\ [][NextLive]_vars
    /\ \A call \in LiveEditCalls : WF_vars(EditTimerFire(call))
    /\ WF_vars(\E call \in chatCalls :
                  \E aiResponse \in SimulatedResponses(call.message, call.document) :
                     ChatTimerFire(call, aiResponse))
    /\ WF_vars(\E call \in chatCalls : \E response \in LiveResponses : ProviderRespond(call, response))

\* the completion handler of a getTextEdit call of the application has run in this step
EditCompleted(call) ==
    /\ ~isAiLoading'
    /\ aiSuggestion' = getTextEdit(call.editType, call.selectedText, call.customPrompt).value.editedText.v

C13_OnePendingAtATime ==
    /\ Cardinality(chatCalls) <= 1
    /\ Cardinality(editCalls) <= 1

(***************************************************************************)
(* The provider of the service over its calls                              *)
(***************************************************************************)
\* C14: the active provider is computed once at construction and never changes: no step
\* of a chat or edit call, succeeding or failing, modifies the service, and every new
\* chat call goes to the provider chosen at construction, as a request to that provider
\* when it is a network provider, and starts without a fallback of its own, also when
\* the call before it failed
C14_ProviderFixed ==
    [][ /\ aiService' = aiService
        /\ aiService = NewAIService(env)
        /\ (chatCalls = {} /\ chatCalls' # {}) =>
              \A call \in chatCalls' :
                 /\ call.provider = aiService.currentProvider
                 /\ ~call.fallback
                 /\ call.phase = IF call.provider = "simulation" THEN "timer" ELSE "fetch"
                 /\ call.provider # "simulation" =>
                       [provider |-> call.provider, type |-> "chat"] \in requests' ]_vars

\* a call to a network provider failed and was answered by the simulation, and the
\* provider is still the active one
C14_Witness ==
    /\ lastChat # NoCall
    /\ lastChat.status = "resolved"
    /\ lastChat.fallback
    /\ lastChat.provider # "simulation"
    /\ aiService.currentProvider = lastChat.provider
    /\ chatCalls = {}

(***************************************************************************)
(* The connection of App                                                   *)
(***************************************************************************)
\* C15: the sync channel never reconnects on its own: the one connection of the session
\* only advances from connecting to open to closed, and once it is closed it is never
\* open again, so every later local edit is applied locally but not transmitted
C15_NeverReopens ==
    [][ /\ socket' # socket =>
              \/ socket = "CONNECTING" /\ socket' \in {"OPEN", "CLOSED"}
              \/ socket = "OPEN" /\ socket' = "CLOSED"
        /\ socket = "CLOSED" =>
              /\ socket' = "CLOSED"
              /\ sent' = <<>>
              /\ localChange' \in {"editor", "confirm"} =>
                    document' = Str(getHTML(editor')) /\ documentText' = editor'
              /\ localChange' = "chat" =>
                    editor' = HTMLText(document') \/ document' = Str(getHTML(editor')) ]_vars

\* after the connection closed, a confirmed edit changed the document and sent nothing
C15_Witness ==
    /\ socket = "CLOSED"
    /\ localChange = "confirm"
    /\ sent = <<>>
    /\ document = Str(getHTML(editor))
    /\ editor # <<>>

\* C16: a close or an error of the connection is reported upward as a state transition:
\* the step in which the connection closes changes the state that App holds, so that
\* the owner of the channel can tell that synchronization has stopped
C16_CloseReported ==
    [][ (socket # "CLOSED" /\ socket' = "CLOSED") =>
           <<document, documentText, toolbarVars, modalVars, isLoading>>'
              # <<document, documentText, toolbarVars, modalVars, isLoading>> ]_vars

\* C17: an inbound message of type chat, of any other unknown type, or one that cannot be
\* parsed leaves the local document, the editor and the connection unchanged and causes
\* no outbound message
C17_OtherFramesIgnored ==
    [][ (received' # NoFrame /\ received'.kind \notin SyncKinds) =>
           /\ document' = document
           /\ documentText' = documentText
           /\ editor' = editor
           /\ UNCHANGED toolbarVars
           /\ socket' = socket
           /\ sent' = <<>> ]_vars

\* a text that is no JSON arrived while the document held a snapshot and text was selected
C17_Witness ==
    /\ received.kind = <<"g","a","r","b","a","g","e">>
    /\ document \in { Str(data) : data \in Snapshots }
    /\ toolbarVisible

(***************************************************************************)
(* The provider adapters                                                   *)
(***************************************************************************)
\* C18: every network provider adapter interprets the provider's primary text field as a
\* structured payload and returns the parsed payload when the text parses, returns
\* {action: chat, message: raw text} when it does not parse, and fails (which
\* getChatResponse answers with its fallback) when the response has no usable content field
C18_AdaptersParseWrapOrFail ==
    (lastChat # NoCall /\ lastChat.provider # "simulation" /\ lastChat.response.kind = "data") =>
        \A content \in {ExpectedContent(lastChat.provider, lastChat.response.data)} :
            IF ~IsString(content)
            THEN lastChat.fallback
            ELSE /\ ~lastChat.fallback
                 /\ lastChat.status = "resolved"
                 /\ lastChat.value = OrWrap(JSONParse(content), content)

(***************************************************************************)
(* The simulation answering chat messages that hold the cues of several    *)
(* branches, of one branch, of a part of a branch, and of none             *)
(***************************************************************************)
CueMessages ==
    { <<"I","m","p","r","o","v","e"," ","a","n","d"," ","s","u","m","m","a","r","i","z","e">>,
      <<"P","l","e","a","s","e"," ","C","O","R","R","E","C","T"," ","t","h","e"," ","f","o","r","m","a","t">>,
      <<"a","d","d"," ","a"," ","s","u","m","m","a","r","y"," ","t","e","x","t">>,
      <<"a","d","d"," ","t","e","x","t"," ","a","n","d"," ","o","r","g","a","n","i","z","e"," ","i","t">>,
      <<"a","d","d","i","t","i","o","n","a","l"," ","c","o","n","t","e","x","t">>,
      <<"a","d","d"," ","a"," ","c","o","n","c","l","u","s","i","o","n"," ","p","a","r","a","g","r","a","p","h">>,
      <<"a","d","d"," ","a","n"," ","i","n","t","r","o"," ","t","o"," ","t","h","e"," ","c","o","n","t","e","n","t">>,
      <<"a","d","d"," ","a","n"," ","i","n","t","r","o","d","u","c","t","i","o","n">>,
      <<"f","o","r","m","a","t"," ","t","h","e"," ","s","u","m","m","a","r","y">>,
      <<"S","u","m","m","a","r","i","z","e">>,
      <<"o","r","g","a","n","i","z","e">>,
      <<"f","i","x"," ","t","h","e"," ","g","r","a","m","m","a","r">>,
      <<"h","e","l","l","o">> }

NextCues ==
    \/ /\ Idle
       /\ \E message \in CueMessages, documentContent \in ChatDocuments :
             CallGetChatResponse(message, documentContent)
    \/ \E call \in chatCalls :
          \E aiResponse \in SimulatedResponses(call.message, call.document) :
             ChatTimerFire(call, aiResponse)

SpecCues == Init /\ [][NextCues]_vars

\* the message, in lower case, holds one of the cues
Cued(message, cues) == \E cue \in cues : includes(toLowerCase(message), cue)

\* the first branch, in the fixed order, whose cues the message holds
ChatBranch(message) ==
    IF Cued(message, {<<"f","i","x"," ","g","r","a","m","m","a","r">>, <<"c","o","r","r","e","c","t">>, <<"i","m","p","r","o","v","e">>}) THEN "improve"
    ELSE IF Cued(message, {<<"a","d","d">>}) /\ Cued(message, {<<"c","o","n","t","e","n","t">>, <<"p","a","r","a","g","r","a","p","h">>, <<"t","e","x","t">>}) THEN "add"
    ELSE IF Cued(message, {<<"s","u","m","m","a","r","i","z","e">>, <<"s","u","m","m","a","r","y">>}) THEN "summarize"
    ELSE IF Cued(message, {<<"f","o","r","m","a","t">>, <<"o","r","g","a","n","i","z","e">>}) THEN "format"
    ELSE "chat"

\* a modify turn with this message whose newContent is the document followed by a heading
Appended(turn, message, currentDocument, heading) ==
    /\ DOMAIN turn.f = {"action", "message", "newContent"}
    /\ Get(turn, "action") = Str(<<"m","o","d","i","f","y">>)
    /\ Get(turn, "message") = Str(message)
    /\ IsString(Get(turn, "newContent"))
    /\ \E rest \in {SubSeq(Get(turn, "newContent").v, Len(currentDocument) + 1,
                           Len(Get(turn, "newContent").v))} :
          /\ Get(turn, "newContent").v = currentDocument \o rest
          /\ EqAt(rest, 1, heading, FALSE)

CuePrompts ==
    { <<"F","o","r","m","a","l"," ","b","u","t"," ","c","a","s","u","a","l">>,
      <<"c","a","s","u","a","l",","," ","t","h","e","n"," ","f","o","r","m","a","l">>,
      <<"f","r","i","e","n","d","l","y"," ","a","n","d"," ","s","h","o","r","t","e","r">>,
      <<"a"," ","l","o","n","g","e","r",","," ","f","r","i","e","n","d","l","y"," ","o","n","e">>,
      <<"c","o","n","c","i","s","e"," ","w","i","t","h"," ","m","o","r","e"," ","d","e","t","a","i","l">>,
      <<"l","o","n","g","e","r"," ","a","n","d"," ","P","R","O","F","E","S","S","I","O","N","A","L">>,
      <<"d","e","t","a","i","l","e","d",","," ","c","o","n","c","i","s","e",","," ","c","a","s","u","a","l",","," ","f","o","r","m","a","l">>,
      <<"i","n","f","o","r","m","a","l">>,
      <<"M","a","k","e"," ","i","t"," ","F","R","I","E","N","D","L","Y">>,
      <<"S","h","o","r","t","e","r">>,
      <<"m","o","r","e"," ","d","e","t","a","i","l">>,
      <<"s","h","o","r","t","e","s","t">>,
      <<"p","o","l","i","s","h"," ","i","t">>,
      <<>> }

CustomTexts ==
    EditorTexts \cup TypedTexts
    \cup { <<"I","t"," ","i","s"," ","v","e","r","y"," ","g","o","o","d","."," ","I"," ","c","a","n","'","t"," ","d","o"," ","a","l","o","t"," ","o","f"," ","t","h","i","n","g","s",","," ","o","k","?"," ","M","a","y","b","e"," ","t","h","e"," ","g","u","y","s"," ","w","i","l","l"," ","n","o","t"," ","h","e","l","p",".">> }

NextCustom ==
    \/ /\ Idle
       /\ \E text \in CustomTexts, customPrompt \in CuePrompts :
             CallGetTextEdit("custom", text, customPrompt)
    \/ \E call \in editCalls : EditTimerFire(call)

SpecCustom == Init /\ [][NextCustom]_vars

\* the first cue group, in the fixed order, of which the instruction holds a cue
CueGroup(prompt) ==
    IF Cued(prompt, {<<"p","r","o","f","e","s","s","i","o","n","a","l">>, <<"f","o","r","m","a","l">>}) THEN "formal"
    ELSE IF Cued(prompt, {<<"c","a","s","u","a","l">>, <<"f","r","i","e","n","d","l","y">>}) THEN "casual"
    ELSE IF Cued(prompt, {<<"s","h","o","r","t","e","r">>, <<"c","o","n","c","i","s","e">>}) THEN "shorten"
    ELSE IF Cued(prompt, {<<"l","o","n","g","e","r">>, <<"d","e","t","a","i","l">>}) THEN "lengthen"
    ELSE "improve"

\* C20: the custom edit chooses its transform by the first matching cue group in the order
\* formal, casual, shorten, lengthen, and improve when none matches, and its result is
\* that transform applied to the text
C20_FirstMatchingCueGroup ==
    (lastEdit.status = "resolved" /\ lastEdit.editType = "custom") =>
        \A group \in {CueGroup(lastEdit.customPrompt)} :
            lastEdit.value.editedText =
                CASE group = "formal" -> makeFormal(lastEdit.selectedText)
                  [] group = "casual" -> makeCasual(lastEdit.selectedText)
                  [] group = "shorten" -> shortenText(lastEdit.selectedText)
                  [] group = "lengthen" -> lengthenText(lastEdit.selectedText)
                  [] OTHER -> improveWriting(lastEdit.selectedText)

\* an instruction that names the casual tone before the formal one gave the formal text,
\* which differs from the casual text and from the four other results
C20_Witness ==
    /\ lastEdit.status = "resolved"
    /\ lastEdit.editType = "custom"
    /\ lastEdit.customPrompt = <<"c","a","s","u","a","l",","," ","t","h","e","n"," ","f","o","r","m","a","l">>
    /\ lastEdit.value.editedText = makeFormal(lastEdit.selectedText)
    /\ lastEdit.value.editedText \notin
          { makeCasual(lastEdit.selectedText), shortenText(lastEdit.selectedText),
            lengthenText(lastEdit.selectedText), improveWriting(lastEdit.selectedText),
            Str(lastEdit.selectedText) }

(***************************************************************************)
(* The two tone tables against each other                                  *)
(***************************************************************************)
\* the pairs of a table, as a set
PairsOf(table) == { table[i] : i \in DOMAIN table }

\* C21: the formal and the casual table are inverses of each other: every pair a -> b of
\* one is the pair b -> a of the other, so that casual undoes formal on a text without
\* formal words, and formal undoes casual on a text without casual words, up to letter case
C21_TablesInverse ==
    /\ (lastEdit.status = "resolved" /\ lastEdit.editType = "formal"
           /\ makeCasual(lastEdit.selectedText) = Str(lastEdit.selectedText)) =>
          \A formal \in {lastEdit.value.editedText} :
             toLowerCase(makeCasual(formal.v).v) = toLowerCase(lastEdit.selectedText)
    /\ (lastEdit.status = "resolved" /\ lastEdit.editType = "casual"
           /\ makeFormal(lastEdit.selectedText) = Str(lastEdit.selectedText)) =>
          \A casual \in {lastEdit.value.editedText} :
             toLowerCase(makeFormal(casual.v).v) = toLowerCase(lastEdit.selectedText)
    /\ PairsOf(casualTable) = { <<pair[2], pair[1]>> : pair \in PairsOf(formalTable) }

\* the same without the last pair of each table
C21_InverseButLast ==
    /\ (lastEdit.status = "resolved" /\ lastEdit.editType = "formal"
           /\ makeCasual(lastEdit.selectedText) = Str(lastEdit.selectedText)
           /\ ~includes(toLowerCase(lastEdit.selectedText), <<"g","u","y","s">>)) =>
          \A formal \in {lastEdit.value.editedText} :
             toLowerCase(makeCasual(formal.v).v) = toLowerCase(lastEdit.selectedText)
    /\ (lastEdit.status = "resolved" /\ lastEdit.editType = "casual"
           /\ makeFormal(lastEdit.selectedText) = Str(lastEdit.selectedText)
           /\ ~includes(toLowerCase(lastEdit.selectedText), <<"i","n","d","i","v","i","d","u","a","l","s">>)) =>
          \A casual \in {lastEdit.value.editedText} :
             toLowerCase(makeFormal(casual.v).v) = toLowerCase(lastEdit.selectedText)
    /\ PairsOf(SubSeq(casualTable, 1, 8))
          = { <<pair[2], pair[1]>> : pair \in PairsOf(SubSeq(formalTable, 1, 8)) }

(***************************************************************************)
(* The improve scenario                                                    *)
(***************************************************************************)
ScenarioDocument == <<"i"," ","t","h","i","n","k"," ","t","e","h"," ","c","a","t"," ","i","s"," ","n","i","c","e",".">>

ScenarioOutput == <<"I"," ","t","h","i","n","k"," ","t","h","e"," ","c","a","t"," ","i","s"," ","n","i","c","e",".">>

\* the simulation answered a chat message that asks to improve the scenario document
ChatImproved ==
    /\ lastChat.status = "resolved"
    /\ lastChat.provider = "simulation" \/ lastChat.fallback
    /\ ChatBranch(lastChat.message) = "improve"
    /\ lastChat.document = ScenarioDocument

\* getTextEdit answered an edit of type improve of the scenario document
EditImproved ==
    /\ lastEdit.status = "resolved"
    /\ lastEdit.editType = "improve"
    /\ lastEdit.selectedText = ScenarioDocument

\* C22, as stated: on the simulation path an improve request on the document "i think teh
\* cat is nice." produces output that contains "I think the cat is nice.", by the chat
\* message that asks to improve and by the edit of type improve
C22_ImproveScenario ==
    /\ ChatImproved => includes(Get(lastChat.value, "newContent").v, ScenarioOutput)
    /\ EditImproved => includes(lastEdit.value.editedText.v, ScenarioOutput)

\* C22, amended: a chat message that asks to improve gives the document "I think the cat
\* is nice." with action modify; the edit of type improve gives the text back unchanged
C22_ChatImproveScenario ==
    /\ ChatImproved => lastChat.value = ModifyTurn(MsgImproved, Str(ScenarioOutput))
    /\ EditImproved => lastEdit.value.editedText = Str(ScenarioDocument)

\* the chat message "Fix grammar" on the scenario document was answered after the
\* provider had failed
C22_Witness ==
    /\ ChatImproved
    /\ lastChat.fallback
    /\ lastChat.message = <<"F","i","x"," ","g","r","a","m","m","a","r">>

(***************************************************************************)
(* The preview modal and the pending edits                                 *)
(***************************************************************************)
\* the instructions that the modal can have sent with the edit type it displays
PromptsShown ==
    IF currentEditType = "custom" THEN { p \in TypedPrompts : PromptSupplied(p) } ELSE { <<>> }

\* C23: whenever the preview modal is open and shows a non-empty suggestion, the
\* suggestion is the result of an edit of the original text and of the edit type that the
\* modal displays; the result of a request that was cancelled while it was pending is
\* never displayed
C23_SuggestionIsCurrent ==
    (previewModalOpen /\ aiSuggestion # <<>>) =>
        \E customPrompt \in PromptsShown :
            EditedText(currentEditType, originalText, customPrompt) = Str(aiSuggestion)

\* C24: when an edit is confirmed and a replacement is performed, the range of the
\* document that is replaced holds exactly the original text that was transformed, also
\* when the document changed between the selection and the confirmation
C24_ReplacesOriginal ==
    [][ localChange' = "confirm" =>
           textBetween(editor, selectionRange.from, selectionRange.to) = originalText ]_vars

(***************************************************************************)
(* The chat response and the document                                      *)
(***************************************************************************)
\* the contents with which the simulation may answer message on the text
NewContents(message, text) ==
    { Get(aiResponse, "newContent") : aiResponse \in SimulatedResponses(message, text) }

\* C25: a local edit made between a chat request and the arrival of its modify response
\* is still reflected in the document after the response is applied: when the text has
\* changed since the request, the content that is applied is an answer to the text as it
\* is now, not to the snapshot of the request
C25_EditSurvivesResponse ==
    [][ localChange' = "chat" =>
           \A call \in chatCalls \ chatCalls' :
              call.document # documentText =>
                 document' \in NewContents(call.message, documentText) ]_vars

\* C26: the text handed to a chat request is that of the current document: also after an
\* inbound init or update or a chat response has replaced the document, the next chat
\* request receives the text that the editor shows
C26_RequestTakesCurrentText ==
    [][ \A call \in chatCalls' \ chatCalls : call.document = editor ]_vars

(***************************************************************************)
(* Inbound snapshots and outbound updates                                  *)
(***************************************************************************)
\* C27: applying an inbound init or update message never causes an outbound update
\* message: the step that applies the snapshot sends nothing, and every frame that is
\* sent is the update frame of a local change of that step
C27_NoEcho ==
    [][ /\ (received' # NoFrame /\ received'.kind \in SyncKinds) => sent' = <<>>
        /\ sent' # <<>> =>
              /\ received' = NoFrame
              /\ localChange' \in {"editor", "confirm", "chat"}
              /\ sent' = <<UpdateFrame(document')>> ]_vars

\* an update frame replaced the typed text of the editor by its snapshot on the open
\* connection, and nothing was sent
C27_Witness ==
    /\ received.kind = <<"u","p","d","a","t","e">>
    /\ socket = "OPEN"
    /\ document = Str(received.data)
    /\ editor = HTMLText(document)
    /\ documentText # <<>>
    /\ documentText # editor
    /\ sent = <<>>

(***************************************************************************)
(* The loading flag, the toolbar and the chat indicator                    *)
(***************************************************************************)
\* C28: isAiLoading is true exactly while an edit request is pending: true from the
\* moment an edit request is issued until it completes, false when none is pending
C28_LoadingIffPending == isAiLoading <=> editCalls # {}

\* C30: in the chat sidebar an AI message is marked as having updated the document if and
\* only if the handling of its response applied a document update: the step in which a
\* response arrives changes the document by the chat exactly when its message is marked
C30_MarkedIffApplied ==
    [][ \A call \in chatCalls \ chatCalls' :
           (call.awaiter = "handleSendMessage" /\ call.phase = "timer") =>
              \A aiResponse \in SimulatedResponses(call.message, call.document) :
                 ShowsUpdated(aiResponse) <=> localChange' = "chat" ]_vars

(***************************************************************************)
(* The floating toolbar under selections of every kind in the typed text:  *)
(* of words, of three characters, of blanks only, and none                 *)
(***************************************************************************)
ToolbarTexts == { <<"h","i"," ","g","u","y","s">>, <<"a","b"," "," "," "," "," ","c">> }

\* the positions at which a selection starts and ends
SelectionStarts == {1, 3}

SelectionEnds(from) == { to \in {1, 4, 8, Len(editor) + 1} : from <= to /\ to <= Len(editor) + 1 }

NextToolbar ==
    \/ \E text \in ToolbarTexts : onUpdate(text)
    \/ /\ editor \in ToolbarTexts
       /\ \E from \in SelectionStarts : \E to \in SelectionEnds(from) : onSelectionUpdate(from, to)
    \/ hideFloatingToolbar
    \/ \E editType \in PickedEditTypes : handleEditWithAI(editType)
    \/ \E customPrompt \in TypedPrompts : handleCustomEdit(customPrompt)
    \/ handleConfirmEdit
    \/ handleCancelEdit
    \/ \E call \in editCalls : EditTimerFire(call)

SpecToolbar == Init /\ [][NextToolbar]_vars

\* C29: whenever the floating toolbar is visible, a selection is recorded: selectedText
\* is not blank and longer than 3 characters, and selectionRange is not null
C29_VisibleWithSelection ==
    toolbarVisible =>
        /\ trim(selectedText) # <<>>
        /\ Len(selectedText) > 3
        /\ selectionRange # Null

\* the toolbar is shown for a selection that begins inside a word and ends in a run of
\* blanks, while the modal shows the suggestion of an earlier selection
C29_Witness ==
    /\ toolbarVisible
    /\ selectedText = <<"a","b"," "," "," "," "," ">>
    /\ selectionRange = [from |-> 1, to |-> 8]
    /\ previewModalOpen
    /\ aiSuggestion # <<>>

====
